---- MODULE Spec2Model ----
(***************************************************************************)
(* The chat client of botify-lite (apps/react-frontend): the streaming     *)
(* response reconstruction engine and the message manager around it.       *)
(*                                                                         *)
(* A JavaScript string is a sequence of one-character strings, so that     *)
(* split, trim, startsWith, the regular-expression replacements and        *)
(* JSON.parse are computed character by character.                         *)
(***************************************************************************)
EXTENDS Integers, Sequences, FiniteSets, TLC

\* ------------------------------------------------------------------------
\* Strings
\* ------------------------------------------------------------------------

\* The characters String.prototype.trim removes that the transport can carry.
WhiteSpace == {" ", "\t", "\r", "\n"}

LowerCase == {"a", "b", "c", "d", "e", "f", "g", "h", "i", "j", "k", "l", "m",
              "n", "o", "p", "q", "r", "s", "t", "u", "v", "w", "x", "y", "z"}

UpperCase == {"A", "B", "C", "D", "E", "F", "G", "H", "I", "J", "K", "L", "M",
              "N", "O", "P", "Q", "R", "S", "T", "U", "V", "W", "X", "Y", "Z"}

SentenceEnd == {".", "!", "?"}

startsWith(s, p) == Len(s) >= Len(p) /\ SubSeq(s, 1, Len(p)) = p

endsWith(s, p) == Len(s) >= Len(p) /\ SubSeq(s, Len(s) - Len(p) + 1, Len(s)) = p

slice(s, n) == SubSeq(s, n + 1, Len(s))

RECURSIVE trimStart(_)
trimStart(s) ==
    IF s # <<>> /\ Head(s) \in WhiteSpace THEN trimStart(Tail(s)) ELSE s

RECURSIVE trimEnd(_)
trimEnd(s) ==
    IF s # <<>> /\ s[Len(s)] \in WhiteSpace
    THEN trimEnd(SubSeq(s, 1, Len(s) - 1))
    ELSE s

trim(s) == trimEnd(trimStart(s))

\* s.split('\n'): the pieces between the line breaks, at least one piece.
RECURSIVE split(_)
split(s) ==
    IF \E i \in 1..Len(s) : s[i] = "\n"
    THEN LET i == CHOOSE k \in 1..Len(s) :
                      s[k] = "\n" /\ \A j \in 1..(k - 1) : s[j] # "\n"
         IN  <<SubSeq(s, 1, i - 1)>> \o split(SubSeq(s, i + 1, Len(s)))
    ELSE <<s>>

includes(s, c) == \E i \in 1..Len(s) : s[i] = c

\* s.replace(/(first)(second)/g, '$1 $2') for two character classes.
RECURSIVE replaceBoundary(_, _, _)
replaceBoundary(s, first, second) ==
    IF Len(s) < 2 THEN s
    ELSE IF s[1] \in first /\ s[2] \in second
         THEN <<s[1], " ", s[2]>> \o replaceBoundary(SubSeq(s, 3, Len(s)), first, second)
         ELSE <<s[1]>> \o replaceBoundary(Tail(s), first, second)

\* A repair that also puts a space between a space and an uppercase letter.
formatDisplayResponseAfterSpaceToo(s) ==
    replaceBoundary(replaceBoundary(s, LowerCase \cup {" "}, UpperCase),
                    SentenceEnd, UpperCase)

\* A repair that applies the first of the two replacements only.
formatDisplayResponseCamelCaseOnly(s) == replaceBoundary(s, LowerCase, UpperCase)

\* The two replacements applied to a displayResponse.
formatDisplayResponse(s) ==
    replaceBoundary(replaceBoundary(s, LowerCase, UpperCase), SentenceEnd, UpperCase)

\* ------------------------------------------------------------------------
\* JSON values and JSON.parse
\* ------------------------------------------------------------------------

Undefined == [type |-> "undefined"]

Null == [type |-> "null"]

JString(s) == [type |-> "string", str |-> s]

JArray(items) == [type |-> "array", items |-> items]

JObject(members) == [type |-> "object", members |-> members]

ParseFail == [ok |-> FALSE, value |-> Undefined, next |-> 0]

RECURSIVE skipWs(_, _)
skipWs(s, i) == IF i <= Len(s) /\ s[i] \in WhiteSpace THEN skipWs(s, i + 1) ELSE i

\* A string literal starting at s[i] = '"': up to the next '"' (the transport
\* carries no escape sequences); a line break inside a literal is an error.
stringBody(s, i, k) ==
    IF \E j \in (i + 1)..(k - 1) : s[j] \in {"\n", "\r", "\t"}
    THEN ParseFail
    ELSE [ok |-> TRUE, value |-> JString(SubSeq(s, i + 1, k - 1)), next |-> k + 1]

parseString(s, i) ==
    IF \E k \in (i + 1)..Len(s) : s[k] = "\""
    THEN stringBody(s, i, CHOOSE e \in (i + 1)..Len(s) :
                              s[e] = "\"" /\ \A j \in (i + 1)..(e - 1) : s[j] # "\"")
    ELSE ParseFail

RECURSIVE parseValue(_, _)
RECURSIVE parseMembers(_, _, _)
RECURSIVE parseElements(_, _, _)

\* After a member's value v: ',' goes on to the next member, '}' ends the object.
memberEnd(s, e, more) ==
    IF e > Len(s) THEN ParseFail
    ELSE IF s[e] = "," THEN parseMembers(s, e + 1, more)
    ELSE IF s[e] = "}" THEN [ok |-> TRUE, value |-> JObject(more), next |-> e + 1]
    ELSE ParseFail

memberValue(s, key, v, acc) ==
    IF ~v.ok THEN ParseFail
    ELSE memberEnd(s, skipWs(s, v.next), Append(acc, [key |-> key, value |-> v.value]))

memberColon(s, k, c, acc) ==
    IF ~k.ok \/ c > Len(s) THEN ParseFail
    ELSE IF s[c] # ":" THEN ParseFail
    ELSE memberValue(s, k.value.str, parseValue(s, c + 1), acc)

memberKey(s, k, acc) == memberColon(s, k, IF k.ok THEN skipWs(s, k.next) ELSE 0, acc)

memberAt(s, i, acc) ==
    IF i > Len(s) THEN ParseFail
    ELSE IF s[i] # "\"" THEN ParseFail
    ELSE memberKey(s, parseString(s, i), acc)

\* The members of an object after '{' or ',': "key" : value, then ',' or '}'.
parseMembers(s, i0, acc) == memberAt(s, skipWs(s, i0), acc)

\* After an element: ',' goes on to the next element, ']' ends the array.
elementEnd(s, e, more) ==
    IF e > Len(s) THEN ParseFail
    ELSE IF s[e] = "," THEN parseElements(s, e + 1, more)
    ELSE IF s[e] = "]" THEN [ok |-> TRUE, value |-> JArray(more), next |-> e + 1]
    ELSE ParseFail

elementValue(s, v, acc) ==
    IF ~v.ok THEN ParseFail
    ELSE elementEnd(s, skipWs(s, v.next), Append(acc, v.value))

\* The elements of an array after '[' or ',': value, then ',' or ']'.
parseElements(s, i0, acc) == elementValue(s, parseValue(s, i0), acc)

\* After '{' (closer '}') or '[' (closer ']'): the empty container, or its
\* members or elements.
containerAt(s, j, closer) ==
    IF j <= Len(s) /\ s[j] = closer
    THEN [ok |-> TRUE,
          value |-> IF closer = "}" THEN JObject(<<>>) ELSE JArray(<<>>),
          next |-> j + 1]
    ELSE IF closer = "}" THEN parseMembers(s, j, <<>>)
    ELSE parseElements(s, j, <<>>)

valueAt(s, i) ==
    IF i > Len(s) THEN ParseFail
    ELSE IF s[i] = "\"" THEN parseString(s, i)
    ELSE IF s[i] = "{" THEN containerAt(s, skipWs(s, i + 1), "}")
    ELSE IF s[i] = "[" THEN containerAt(s, skipWs(s, i + 1), "]")
    ELSE ParseFail

\* A JSON value starting at or after s[i0]: a string, an object or an array
\* (the envelope wire format carries no numbers or literals).
parseValue(s, i0) == valueAt(s, skipWs(s, i0))

wholeValue(s, v) ==
    IF v.ok /\ skipWs(s, v.next) > Len(s)
    THEN [ok |-> TRUE, value |-> v.value]
    ELSE [ok |-> FALSE, value |-> Undefined]

\* JSON.parse(s): [ok |-> FALSE] stands for the SyntaxError it throws.
JSONparse(s) == wholeValue(s, parseValue(s, 1))

\* obj.key of a parsed value: the last member of that name, or undefined.
RECURSIVE lookup(_, _)
lookup(members, key) ==
    IF members = <<>> THEN Undefined
    ELSE IF members[Len(members)].key = key THEN members[Len(members)].value
    ELSE lookup(SubSeq(members, 1, Len(members) - 1), key)

field(obj, key) == IF obj.type = "object" THEN lookup(obj.members, key) ELSE Undefined

\* JavaScript truthiness of a value: '' , null and undefined are falsy.
truthy(v) ==
    /\ v.type \notin {"undefined", "null"}
    /\ (v.type = "string" => v.str # <<>>)

\* ------------------------------------------------------------------------
\* The message manager (hooks/useMessageManager.tsx)
\* ------------------------------------------------------------------------

Message(role, content) ==
    [role |-> role, content |-> content, recommendedProducts |-> Undefined]

\* A message manager that merges a user message into a preceding one.
addUserMessageMerges(prev, content) ==
    IF prev # <<>> /\ prev[Len(prev)].role = "user"
    THEN [prev EXCEPT ![Len(prev)].content = @ \o content]
    ELSE Append(prev, Message("user", content))

\* addUserMessage: setMessages(prev => [...prev, userMessage]).
addUserMessage(prev, content) == Append(prev, Message("user", content))

\* A message manager that starts a new bot message for every fragment.
updateOrAddBotMessageAlwaysAdds(prev, content) == Append(prev, Message("bot", content))

\* A message manager that replaces the content of the last bot message.
updateOrAddBotMessageOverwrites(prev, content) ==
    IF prev # <<>> /\ prev[Len(prev)].role = "bot"
    THEN [prev EXCEPT ![Len(prev)].content = content]
    ELSE Append(prev, Message("bot", content))

\* updateOrAddBotMessage: lastBotIndex is the last index when the last message
\* is a bot message and -1 otherwise (0 here, sequences start at 1).
updateOrAddBotMessage(prev, content) ==
    LET lastBotIndex ==
            IF prev # <<>> /\ prev[Len(prev)].role = "bot" THEN Len(prev) ELSE 0
    IN  IF lastBotIndex = 0
        THEN Append(prev, Message("bot", content))
        ELSE [prev EXCEPT ![lastBotIndex].content = @ \o content]

\* The index of the last bot message, scanning backward; 0 when there is none.
RECURSIVE lastBotIdx(_, _)
lastBotIdx(prev, i) ==
    IF i = 0 THEN 0
    ELSE IF prev[i].role = "bot" THEN i
    ELSE lastBotIdx(prev, i - 1)

\* A message manager that sets the products only when the last message of
\* the list is a bot message.
updateLastMessageIfBotWithProducts(prev, products) ==
    IF prev # <<>> /\ prev[Len(prev)].role = "bot"
    THEN [prev EXCEPT ![Len(prev)].recommendedProducts =
              IF truthy(products) THEN products ELSE JArray(<<>>)]
    ELSE prev

\* A message manager that sets the products on every bot message.
updateEveryBotMessageWithProducts(prev, products) ==
    [i \in 1..Len(prev) |->
        IF prev[i].role = "bot"
        THEN [prev[i] EXCEPT !.recommendedProducts =
                  IF truthy(products) THEN products ELSE JArray(<<>>)]
        ELSE prev[i]]

\* updateLastBotMessageWithProducts (products revision): products || [] is
\* set on the last bot message, if there is one.
updateLastBotMessageWithProducts(prev, products) ==
    IF lastBotIdx(prev, Len(prev)) = 0 THEN prev
    ELSE [prev EXCEPT ![lastBotIdx(prev, Len(prev))].recommendedProducts =
              IF truthy(products) THEN products ELSE JArray(<<>>)]

\* ------------------------------------------------------------------------
\* The chunk reconstructor and the completion handler (utils/messageUtils.tsx)
\* ------------------------------------------------------------------------

OpenBrace == <<"{">>

CloseBrace == <<"}">>

KeyDisplayResponse ==
    <<"d", "i", "s", "p", "l", "a", "y", "R", "e", "s", "p", "o", "n", "s", "e">>

KeyVoiceSummary == <<"v", "o", "i", "c", "e", "S", "u", "m", "m", "a", "r", "y">>

KeyContent == <<"c", "o", "n", "t", "e", "n", "t">>

KeyRole == <<"r", "o", "l", "e">>

KeyRecommendedProducts ==
    <<"r", "e", "c", "o", "m", "m", "e", "n", "d", "e", "d",
      "P", "r", "o", "d", "u", "c", "t", "s">>

\* A closing '}' that, with nothing to display, goes on collecting.
closeCollectionKeepsCollecting(accumulated, displayResponse) ==
    IF truthy(displayResponse) /\ displayResponse.type = "string"
    THEN [isCollectingJson |-> FALSE,
          accumulatedJsonString |-> accumulated,
          display |-> <<formatDisplayResponse(displayResponse.str)>>]
    ELSE [isCollectingJson |-> TRUE,
          accumulatedJsonString |-> accumulated,
          display |-> <<>>]

\* The closing '}' of a collection, given jsonObject.displayResponse (undefined
\* when JSON.parse threw): a displayResponse is put on display with the two
\* replacements applied and the buffer is left as it is; otherwise the buffer
\* is emptied. display holds the arguments passed to updateOrAddBotMessage by
\* this call, in order (none or one).
closeCollection(accumulated, displayResponse) ==
    IF truthy(displayResponse) /\ displayResponse.type = "string"
    THEN [isCollectingJson |-> FALSE,
          accumulatedJsonString |-> accumulated,
          display |-> <<formatDisplayResponse(displayResponse.str)>>]
    ELSE [isCollectingJson |-> FALSE,
          accumulatedJsonString |-> <<>>,
          display |-> <<>>]

\* handleStreamingChunk(chunk, updateOrAddBotMessage) on the module-level
\* isCollectingJson and accumulatedJsonString.
handleStreamingChunk(chunk, collecting, accumulated) ==
    IF chunk = <<>> \/ trim(chunk) = <<>>
    THEN [isCollectingJson |-> collecting,
          accumulatedJsonString |-> accumulated,
          display |-> <<>>]
    ELSE IF chunk = OpenBrace
    THEN [isCollectingJson |-> TRUE,
          accumulatedJsonString |-> OpenBrace,
          display |-> <<>>]
    ELSE IF collecting
    THEN IF chunk = CloseBrace
         THEN closeCollection(accumulated \o chunk,
                              field(JSONparse(accumulated \o chunk).value,
                                    KeyDisplayResponse))
         ELSE [isCollectingJson |-> TRUE,
               accumulatedJsonString |-> accumulated \o chunk,
               display |-> <<>>]
    ELSE [isCollectingJson |-> FALSE,
          accumulatedJsonString |-> accumulated,
          display |-> <<chunk>>]

\* speechService.extractVoiceSummaryFromResponse: the voiceSummary field of
\* the response when it is a non-empty string, and null otherwise.
extractVoiceSummaryFromResponse(response) ==
    LET v == field(response, KeyVoiceSummary)
    IN  IF v.type = "string" /\ v.str # <<>> THEN v ELSE Null

\* A completion handler that does not consult useTextToSpeech.
handleStreamingCompleteAlwaysSpeaks(json, textToSpeech) ==
    IF json # Null
    THEN [reset |-> TRUE,
          synthesize |-> IF truthy(extractVoiceSummaryFromResponse(json))
                         THEN <<extractVoiceSummaryFromResponse(json).str>>
                         ELSE <<>>]
    ELSE [reset |-> FALSE, synthesize |-> <<>>]

\* handleStreamingComplete(json, speechService, useTextToSpeech): whether the
\* accumulation variables are reset, and the texts handed to synthesizeSpeech.
handleStreamingComplete(json, textToSpeech) ==
    IF json # Null
    THEN LET voiceSummary == extractVoiceSummaryFromResponse(json)
         IN  [reset |-> TRUE,
              synthesize |-> IF textToSpeech /\ truthy(voiceSummary)
                             THEN <<voiceSummary.str>>
                             ELSE <<>>]
    ELSE [reset |-> FALSE, synthesize |-> <<>>]

\* playSpeechResponse(response, speechService, useTextToSpeech) for the
\* Message sendMessageToBot returns: the texts handed to synthesizeSpeech.
playSpeechResponse(response, textToSpeech) ==
    IF ~textToSpeech THEN <<>>
    ELSE LET voiceSummary == extractVoiceSummaryFromResponse(response)
             content == field(response, KeyContent)
         IN  IF truthy(voiceSummary) THEN <<voiceSummary.str>>
             ELSE IF truthy(content) /\ content.type = "string" THEN <<content.str>>
             ELSE <<>>

\* ------------------------------------------------------------------------
\* The products revision of the handlers (the revision that renders product
\* cards: its handlers take updateLastBotMessageWithProducts and
\* setWaitingForProductRecs, and no speech setting)
\* ------------------------------------------------------------------------

\* 'RECOMMENDED_PRODUCTS_PLACEHOLDER'
ProductsPlaceholder ==
    <<"R", "E", "C", "O", "M", "M", "E", "N", "D", "E", "D", "_",
      "P", "R", "O", "D", "U", "C", "T", "S", "_",
      "P", "L", "A", "C", "E", "H", "O", "L", "D", "E", "R">>

\* 'Looking for product recommendations...'
LookingForProducts ==
    <<"L", "o", "o", "k", "i", "n", "g", " ", "f", "o", "r", " ",
      "p", "r", "o", "d", "u", "c", "t", " ",
      "r", "e", "c", "o", "m", "m", "e", "n", "d", "a", "t", "i", "o", "n", "s",
      ".", ".", ".">>

\* s.includes(sub) for a substring.
includesString(s, sub) ==
    \E i \in 1..(Len(s) - Len(sub) + 1) : SubSeq(s, i, i + Len(sub) - 1) = sub

\* handleStreamingChunk of the products revision: the same collection, and a
\* chunk put on display as plain text that contains a placeholder calls
\* setWaitingForProductRecs (pending).
handleStreamingChunkProducts(chunk, collecting, accumulated) ==
    [isCollectingJson |-> handleStreamingChunk(chunk, collecting, accumulated).isCollectingJson,
     accumulatedJsonString |->
         handleStreamingChunk(chunk, collecting, accumulated).accumulatedJsonString,
     display |-> handleStreamingChunk(chunk, collecting, accumulated).display,
     pending |-> /\ trim(chunk) # <<>>
                 /\ chunk # OpenBrace
                 /\ ~collecting
                 /\ \/ includesString(chunk, ProductsPlaceholder)
                    \/ includesString(chunk, LookingForProducts)]

\* processMessageResponse of the products revision, as far as its caller
\* reads it: the recommendedProducts of msgWithProducts, which are those of
\* the content when it parses and lists at least one.
processMessageResponseProducts(response) ==
    IF /\ field(response, KeyContent).type = "string"
       /\ JSONparse(field(response, KeyContent).str).ok
       /\ field(JSONparse(field(response, KeyContent).str).value,
                KeyRecommendedProducts).type = "array"
       /\ field(JSONparse(field(response, KeyContent).str).value,
                KeyRecommendedProducts).items # <<>>
    THEN field(JSONparse(field(response, KeyContent).str).value, KeyRecommendedProducts)
    ELSE field(response, KeyRecommendedProducts)

\* playSpeechResponse of the products revision: there is no setting to
\* consult, and any truthy content is spoken when there is no voiceSummary.
playSpeechResponseProducts(response) ==
    IF truthy(extractVoiceSummaryFromResponse(response))
    THEN <<extractVoiceSummaryFromResponse(response).str>>
    ELSE IF truthy(field(response, KeyContent))
         THEN <<field(response, KeyContent).str>>
         ELSE <<>>

\* A completion handler of the products revision without its null test.
handleStreamingCompleteProductsUnguarded(json) ==
    [reset |-> TRUE,
     attach |-> <<field(json, KeyRecommendedProducts)>>,
     synthesize |-> IF truthy(extractVoiceSummaryFromResponse(json))
                    THEN <<extractVoiceSummaryFromResponse(json).str>>
                    ELSE <<>>]

\* handleStreamingComplete of the products revision: whether the accumulation
\* variables are reset, the arguments of updateLastBotMessageWithProducts and
\* the texts handed to synthesizeSpeech.
handleStreamingCompleteProducts(json) ==
    IF json # Null
    THEN [reset |-> TRUE,
          attach |-> <<field(json, KeyRecommendedProducts)>>,
          synthesize |-> IF truthy(extractVoiceSummaryFromResponse(json))
                         THEN <<extractVoiceSummaryFromResponse(json).str>>
                         ELSE <<>>]
    ELSE [reset |-> FALSE, attach |-> <<>>, synthesize |-> <<>>]

\* ------------------------------------------------------------------------
\* The transport (services/botservice.ts)
\* ------------------------------------------------------------------------

DataPrefix == <<"d", "a", "t", "a", ":">>

\* A loop in which a payload in braces that does not parse clears the saved
\* envelope.
afterChunkOverwrites(dataStr, st, h) ==
    [messages |-> IF h.display = <<>> THEN st.messages
                  ELSE updateOrAddBotMessage(st.messages, h.display[1]),
     isCollectingJson |-> h.isCollectingJson,
     accumulatedJsonString |-> h.accumulatedJsonString,
     jsonResponse |-> IF startsWith(dataStr, OpenBrace) /\ endsWith(dataStr, CloseBrace)
                      THEN JSONparse(dataStr).value
                      ELSE st.jsonResponse,
     handled |-> Append(st.handled,
                        [payload |-> dataStr,
                         collecting |-> st.isCollectingJson,
                         buffer |-> st.accumulatedJsonString,
                         display |-> h.display])]

\* One payload of the read loop: h is what handleStreamingChunk (called by
\* onStreamChunk) made of it; a payload that is a whole JSON object becomes
\* the loop's jsonResponse. st carries the message list, the two accumulation
\* variables, jsonResponse, and the record of the payloads handled (the state
\* each was handled in and what it put on display).
afterChunk(dataStr, st, h) ==
    [messages |-> IF h.display = <<>> THEN st.messages
                  ELSE updateOrAddBotMessage(st.messages, h.display[1]),
     isCollectingJson |-> h.isCollectingJson,
     accumulatedJsonString |-> h.accumulatedJsonString,
     jsonResponse |-> IF startsWith(dataStr, OpenBrace) /\ endsWith(dataStr, CloseBrace)
                         /\ JSONparse(dataStr).ok
                      THEN JSONparse(dataStr).value
                      ELSE st.jsonResponse,
     handled |-> Append(st.handled,
                        [payload |-> dataStr,
                         collecting |-> st.isCollectingJson,
                         buffer |-> st.accumulatedJsonString,
                         display |-> h.display])]

onData(dataStr, st) ==
    afterChunk(dataStr, st,
               handleStreamingChunk(dataStr, st.isCollectingJson, st.accumulatedJsonString))

processLine(line, dataStr, st) ==
    IF startsWith(line, DataPrefix) /\ dataStr # <<>> THEN onData(dataStr, st) ELSE st

\* The body of the loop over the complete lines of the buffer.
\* A loop over the complete lines that takes them last line first.
RECURSIVE processLinesBackwards(_, _)
processLinesBackwards(lines, st) ==
    IF lines = <<>> THEN st
    ELSE processLine(Head(lines), trim(slice(Head(lines), 5)),
                     processLinesBackwards(Tail(lines), st))

RECURSIVE processLines(_, _)
processLines(lines, st) ==
    IF lines = <<>> THEN st
    ELSE processLines(Tail(lines),
                      processLine(Head(lines), trim(slice(Head(lines), 5)), st))

\* ------------------------------------------------------------------------
\* Inputs: what the server sends
\* ------------------------------------------------------------------------

Quoted(s) == <<"\"">> \o s \o <<"\"">>

Pair(key, value) == Quoted(key) \o <<":">> \o Quoted(value)

DataLine(payload) == DataPrefix \o <<" ">> \o payload \o <<"\n">>

TextHi == <<"H", "i">>

TextYo == <<"y", "o">>

EnvelopeBody ==
    Pair(KeyDisplayResponse, <<"a", "B">>) \o <<",">> \o Pair(KeyVoiceSummary, <<"C", "d">>)

WholeEnvelope ==
    <<"{">> \o Pair(KeyDisplayResponse, TextHi) \o <<",">>
            \o Pair(KeyVoiceSummary, TextYo) \o <<"}">>

WholeEnvelopeNoVoice == <<"{">> \o Pair(KeyDisplayResponse, TextHi) \o <<"}">>

\* Two text events, the first followed by the blank line that ends an event
\* and by a data line that carries only white space.
ScriptText == <<DataLine(TextHi) \o <<"\n">> \o DataLine(<<" ">>), DataLine(TextYo)>>

\* Text, then an envelope sent payload by payload: '{', its members, '}'.
ScriptEnvelope ==
    <<DataLine(TextHi) \o DataLine(OpenBrace),
      DataLine(EnvelopeBody) \o DataLine(CloseBrace)>>

\* A stream that closes after the opening '{' of its envelope.
ScriptTruncated == <<DataLine(TextHi) \o DataLine(OpenBrace)>>

\* An envelope whose recommendedProducts array holds one product object.
ScriptNested ==
    <<DataLine(OpenBrace) \o DataLine(Quoted(KeyRecommendedProducts) \o <<":", "[">>)
                          \o DataLine(OpenBrace)
                          \o DataLine(Pair(<<"t", "i", "t", "l", "e">>, <<"x">>))
                          \o DataLine(CloseBrace)
                          \o DataLine(<<"]">>) \o DataLine(CloseBrace)>>

\* The whole envelope on one data line, with and without a voiceSummary.
ScriptWhole == <<DataLine(WholeEnvelope)>>

ScriptWholeNoVoice == <<DataLine(WholeEnvelopeNoVoice)>>

WireScripts ==
    {ScriptText, ScriptEnvelope, ScriptTruncated, ScriptNested, ScriptWhole,
     ScriptWholeNoVoice}

\* The bodies of the non-streaming endpoint.
ResponseBodies == {WholeEnvelope, WholeEnvelopeNoVoice, <<"{", "}">>}

UserInputs == {<<"q">>}

\* The cumulative snapshots the products revision iterates over.
Snapshot(text) == JSONparse(text).value

SnapshotHi == Snapshot(WholeEnvelopeNoVoice)

SnapshotFull ==
    Snapshot(<<"{">> \o Pair(KeyDisplayResponse, TextHi \o TextYo) \o <<",">>
                    \o Pair(KeyVoiceSummary, TextYo) \o <<",">>
                    \o Quoted(KeyRecommendedProducts) \o <<":", "[", "{">>
                    \o Pair(<<"t", "i", "t", "l", "e">>, <<"x">>) \o <<"}", ",", "{">>
                    \o Pair(<<"t", "i", "t", "l", "e">>, <<"y">>) \o <<"}", "]", "}">>)

\* A chunk that lists a product and has no displayResponse.
SnapshotProductsOnly ==
    Snapshot(<<"{">> \o Quoted(KeyRecommendedProducts) \o <<":", "[", "{">>
                    \o Pair(<<"t", "i", "t", "l", "e">>, <<"x">>) \o <<"}", "]", "}">>)

\* A chunk whose displayResponse is 'Looking for product recommendations...'.
SnapshotLooking ==
    Snapshot(<<"{">> \o Pair(KeyDisplayResponse, LookingForProducts) \o <<"}">>)

\* A displayResponse that starts with '{' and goes on with
\* 'RECOMMENDED_PRODUCTS_PLACEHOLDER'.
SnapshotBrace ==
    Snapshot(<<"{">> \o Pair(KeyDisplayResponse, OpenBrace) \o <<"}">>)

SnapshotBracePlaceholder ==
    Snapshot(<<"{">> \o Pair(KeyDisplayResponse, OpenBrace \o ProductsPlaceholder)
                    \o <<"}">>)

\* No snapshot at all; a growing displayResponse that ends with products and a
\* voiceSummary; a snapshot followed by a null chunk; products without text;
\* a placeholder text; a placeholder after an opening '{'.
SnapshotScripts ==
    {<<>>, <<SnapshotHi, SnapshotFull>>, <<SnapshotHi, Null>>, <<SnapshotProductsOnly>>,
     <<SnapshotLooking>>, <<SnapshotBrace, SnapshotBracePlaceholder>>}

\* ------------------------------------------------------------------------
\* Bounds
\* ------------------------------------------------------------------------

\* Requests the user sends in one run.
MaxRequests == 2

\* Characters of a displayResponse when the spacing repair is examined on its
\* own, up to this many.
MaxLen == 4

\* getApiToken calls, and steps of ten seconds the clock makes.
MaxTokenCalls == 3

MaxTicks == 4

\* Empty inputs handed to processUserInput when its early return is examined.
MaxIgnored == 2

\* Raw fragments a transport text is cut into when the line framing is
\* examined on its own.
MaxFragments == 3

\* ------------------------------------------------------------------------
\* State
\* ------------------------------------------------------------------------

VARIABLES
    messages,                 \* useMessageManager: the message list
    isWaitingForBotResponse,  \* useMessageManager: the waiting indicator
    isCollectingJson,         \* messageUtils: module-level collection flag
    accumulatedJsonString,    \* messageUtils: module-level collection buffer
    isWaitingForProductRecs,  \* useMessageManager (products revision)
    useStreaming,             \* AppContext: the streaming setting
    useTextToSpeech,          \* AppContext: the speech setting
    build,                    \* which revision of the frontend runs
    started,                  \* number of processUserInput calls so far
    requests,                 \* the processUserInput calls, by number
    speech,                   \* the synthesizeSpeech calls, in order
    ignored,                  \* number of processUserInput calls that returned at once
    apiTokenCache,            \* token service: the cached token, or null
    now,                      \* Date.now(), in milliseconds
    tokenCalls,               \* the getApiToken calls, in order
    cacheCleared              \* clearApiTokenCache ran and no getApiToken call since

vars == <<messages, isWaitingForBotResponse, isWaitingForProductRecs, isCollectingJson,
          accumulatedJsonString, useStreaming, useTextToSpeech, build, started,
          requests, speech, ignored, apiTokenCache, now, tokenCalls, cacheCleared>>

\* What no step of a request changes: the settings, the count of the inputs
\* that were turned away, and the token service with its clock.
settings == <<useStreaming, useTextToSpeech, build, ignored,
              apiTokenCache, now, tokenCalls, cacheCleared>>

RequestIds == 1..MaxRequests

\* A processUserInput call: where it stands (pc), the arguments it captured,
\* the locals of sendMessageToBot (wire is what the server has yet to send,
\* buffer, lastDisplay and jsonResponse are the loop's), and a record of what
\* it did:
\* the text its reads delivered so far (received, kept while it reads),
\* the payloads it handled, the completions it ran (arguments of onStreamEnd),
\* the body response.json() gave it in non-streaming mode (data), how its
\* transport ended, whether it started with no other call in flight, and
\* whether its speech threw (speechError).
NotStarted ==
    [pc |-> "idle", useStreaming |-> FALSE, useTextToSpeech |-> FALSE,
     wire |-> <<>>, buffer |-> <<>>, lastDisplay |-> <<>>, jsonResponse |-> Null,
     received |-> <<>>, handled |-> <<>>, completions |-> <<>>, data |-> Null,
     transport |-> "none", alone |-> FALSE, speechError |-> FALSE]

InFlight(r) == requests[r].pc \notin {"idle", "done"}

\* The state after the first render, whatever the settings.
Mounted ==
    /\ messages = <<>>
    /\ isWaitingForBotResponse = FALSE
    /\ isWaitingForProductRecs = FALSE
    /\ isCollectingJson = FALSE
    /\ accumulatedJsonString = <<>>
    /\ started = 0
    /\ requests = [r \in RequestIds |-> NotStarted]
    /\ speech = <<>>
    /\ ignored = 0
    /\ apiTokenCache = Null
    /\ now = 0
    /\ tokenCalls = <<>>
    /\ cacheCleared = FALSE

\* The current revision: apps/react-frontend/src.
Init ==
    /\ Mounted
    /\ build = "current"
    /\ useStreaming \in BOOLEAN
    /\ useTextToSpeech \in BOOLEAN

\* ------------------------------------------------------------------------
\* processUserInput and sendMessageToBot, one action per resumption
\* ------------------------------------------------------------------------

\* resetWaitingStates(), then the end of the call.
Finish(r, transport) ==
    /\ isWaitingForBotResponse' = FALSE
    /\ requests' = [requests EXCEPT ![r].pc = "done", ![r].transport = transport]

\* processUserInput up to its first await: addUserMessage, setWaitingForBot.
\* The settings are the ones in force at the call.
StartRequest ==
    /\ build = "current"
    /\ started < MaxRequests
    /\ \E userInput \in UserInputs :
          /\ trim(userInput) # <<>>
          /\ messages' = addUserMessage(messages, userInput)
          /\ isWaitingForBotResponse' = TRUE
          /\ started' = started + 1
          /\ requests' = [requests EXCEPT ![started + 1] =
                 [NotStarted EXCEPT !.pc = "fetch",
                                    !.useStreaming = useStreaming,
                                    !.useTextToSpeech = useTextToSpeech,
                                    !.alone = \A q \in RequestIds : ~InFlight(q)]]
    /\ UNCHANGED <<isCollectingJson, accumulatedJsonString, settings,
                   isWaitingForProductRecs, speech>>

\* await import('./speechService') rejects: the catch of processUserInput.
ImportFails(r) ==
    /\ build = "current"
    /\ requests[r].pc = "fetch"
    /\ Finish(r, "import")
    /\ UNCHANGED <<messages, isCollectingJson, accumulatedJsonString, settings,
                   isWaitingForProductRecs, started, speech>>

\* fetch rejects, the status is not ok, or the response has no body reader:
\* the throw is caught inside sendMessageToBot, which returns null. The
\* non-streaming branch then calls resetWaitingStates; the streaming branch
\* has nothing after the await.
FetchFails(r) ==
    /\ build = "current"
    /\ requests[r].pc = "fetch"
    /\ \E cause \in (IF requests[r].useStreaming THEN {"status", "reader"} ELSE {"status"}) :
          IF requests[r].useStreaming
          THEN /\ requests' = [requests EXCEPT ![r].pc = "done", ![r].transport = cause]
               /\ UNCHANGED isWaitingForBotResponse
          ELSE Finish(r, cause)
    /\ UNCHANGED <<messages, isCollectingJson, accumulatedJsonString, settings,
                   isWaitingForProductRecs, started, speech>>

\* The streaming fetch resolves with a readable body, which will carry one of
\* the scripts: the loop's first read is pending.
FetchOk(r) ==
    /\ build = "current"
    /\ requests[r].pc = "fetch"
    /\ requests[r].useStreaming
    /\ \E wire \in WireScripts :
          requests' = [requests EXCEPT ![r].pc = "read", ![r].wire = wire]
    /\ UNCHANGED <<messages, isWaitingForBotResponse, isCollectingJson,
                   accumulatedJsonString, settings, isWaitingForProductRecs, started, speech>>

\* The effect of one pass of the read loop: lines are the pieces of the
\* extended buffer, st the state after the complete ones were processed.
applyRead(r, lines, st) ==
    /\ messages' = st.messages
    /\ isCollectingJson' = st.isCollectingJson
    /\ accumulatedJsonString' = st.accumulatedJsonString
    /\ requests' = [requests EXCEPT ![r].wire = Tail(@),
                                    ![r].received = @ \o Head(requests[r].wire),
                                    ![r].buffer = lines[Len(lines)],
                                    ![r].jsonResponse = st.jsonResponse,
                                    ![r].handled = st.handled]

\* A read loop that also processes the last piece, which no line break ended.
readLinesWithPartial(r, lines) ==
    applyRead(r, lines,
              processLines(lines,
                           [messages |-> messages,
                            isCollectingJson |-> isCollectingJson,
                            accumulatedJsonString |-> accumulatedJsonString,
                            jsonResponse |-> requests[r].jsonResponse,
                            handled |-> requests[r].handled]))

readLines(r, lines) ==
    applyRead(r, lines,
              processLines(SubSeq(lines, 1, Len(lines) - 1),
                           [messages |-> messages,
                            isCollectingJson |-> isCollectingJson,
                            accumulatedJsonString |-> accumulatedJsonString,
                            jsonResponse |-> requests[r].jsonResponse,
                            handled |-> requests[r].handled]))

\* reader.read() resolves with a fragment: the buffer is extended and cut into
\* lines, the last piece is kept, the complete lines are processed.
ReadChunk(r) ==
    /\ build = "current"
    /\ requests[r].pc = "read"
    /\ requests[r].wire # <<>>
    /\ readLines(r, split(requests[r].buffer \o Head(requests[r].wire)))
    /\ UNCHANGED <<isWaitingForBotResponse, settings, isWaitingForProductRecs, started, speech>>

\* A failure handling that rolls the partial bot message back.
ReadFailsRollsBack(r) ==
    /\ build = "current"
    /\ requests[r].pc = "read"
    /\ requests' = [requests EXCEPT ![r].pc = "done", ![r].transport = "read",
                                    ![r].wire = <<>>, ![r].buffer = <<>>,
                                    ![r].received = <<>>,
                                    ![r].jsonResponse = Null]
    /\ messages' = IF messages[Len(messages)].role = "bot"
                   THEN SubSeq(messages, 1, Len(messages) - 1)
                   ELSE messages
    /\ UNCHANGED <<isWaitingForBotResponse, isCollectingJson, accumulatedJsonString,
                   settings, isWaitingForProductRecs, started, speech>>

\* reader.read() rejects: caught inside sendMessageToBot, which returns null.
ReadFails(r) ==
    /\ build = "current"
    /\ requests[r].pc = "read"
    /\ requests' = [requests EXCEPT ![r].pc = "done", ![r].transport = "read",
                                    ![r].wire = <<>>, ![r].buffer = <<>>,
                                    ![r].received = <<>>,
                                    ![r].jsonResponse = Null]
    /\ UNCHANGED <<messages, isWaitingForBotResponse, isCollectingJson,
                   accumulatedJsonString, settings, isWaitingForProductRecs, started, speech>>

\* The texts say are handed to synthesizeSpeech by call r. When there is one
\* the caller waits for the synthesis; otherwise it goes on to
\* resetWaitingStates at once.
speak(r, say) ==
    /\ speech' = speech \o [i \in 1..Len(say) |-> [request |-> r, text |-> say[i]]]
    /\ isWaitingForBotResponse' = IF say # <<>> THEN isWaitingForBotResponse ELSE FALSE

\* onStreamEnd(json): c is what handleStreamingComplete does with it.
complete(r, json, c) ==
    /\ isCollectingJson' = IF c.reset THEN FALSE ELSE isCollectingJson
    /\ accumulatedJsonString' = IF c.reset THEN <<>> ELSE accumulatedJsonString
    /\ speak(r, c.synthesize)
    /\ requests' = [requests EXCEPT
                        ![r].pc = IF c.synthesize # <<>> THEN "speaking" ELSE "done",
                        ![r].transport = "closed",
                        ![r].buffer = <<>>,
                        ![r].received = <<>>,
                        ![r].jsonResponse = Null,
                        ![r].completions = Append(@, json)]

\* A close that treats what is left in the line buffer as one more line.
ReadDoneFlushes(r) ==
    /\ build = "current"
    /\ requests[r].pc = "read"
    /\ requests[r].wire = <<>>
    /\ LET st == processLines(<<requests[r].buffer>>,
                               [messages |-> messages,
                                isCollectingJson |-> isCollectingJson,
                                accumulatedJsonString |-> accumulatedJsonString,
                                jsonResponse |-> requests[r].jsonResponse,
                                handled |-> requests[r].handled])
       IN  /\ messages' = st.messages
           /\ isCollectingJson' = st.isCollectingJson
           /\ accumulatedJsonString' = st.accumulatedJsonString
           /\ requests' = [requests EXCEPT ![r].pc = "done",
                                           ![r].transport = "closed",
                                           ![r].buffer = <<>>,
                                           ![r].received = <<>>,
                                           ![r].jsonResponse = Null,
                                           ![r].handled = st.handled,
                                           ![r].completions = Append(@, st.jsonResponse)]
    /\ isWaitingForBotResponse' = FALSE
    /\ UNCHANGED <<settings, isWaitingForProductRecs, started, speech>>

\* reader.read() resolves with done: onStreamEnd(jsonResponse), that is
\* handleStreamingComplete and then resetWaitingStates.
ReadDone(r) ==
    /\ build = "current"
    /\ requests[r].pc = "read"
    /\ requests[r].wire = <<>>
    /\ complete(r, requests[r].jsonResponse,
                handleStreamingComplete(requests[r].jsonResponse,
                                        requests[r].useTextToSpeech))
    /\ UNCHANGED <<messages, settings, isWaitingForProductRecs, started>>

\* The Message sendMessageToBot returns for the parsed body data.
botMessage(data) ==
    JObject(<<[key |-> KeyRole, value |-> JString(<<"b", "o", "t">>)],
              [key |-> KeyContent, value |-> field(data, KeyDisplayResponse)]>>)

\* The non-streaming branch of processUserInput for a response: its content
\* (or '') is put on display, then playSpeechResponse.
respond(r, data, content, say) ==
    /\ messages' = updateOrAddBotMessage(messages,
                       IF truthy(content) THEN content.str ELSE <<>>)
    /\ speak(r, say)
    /\ requests' = [requests EXCEPT
                        ![r].pc = IF say # <<>> THEN "speaking" ELSE "done",
                        ![r].data = data,
                        ![r].transport = "closed"]

\* The non-streaming fetch resolves and its body parses.
NonStreamingResponse(r) ==
    /\ build = "current"
    /\ requests[r].pc = "fetch"
    /\ ~requests[r].useStreaming
    /\ \E body \in ResponseBodies :
          /\ JSONparse(body).ok
          /\ respond(r, JSONparse(body).value,
                     field(botMessage(JSONparse(body).value), KeyContent),
                     playSpeechResponse(botMessage(JSONparse(body).value),
                                        requests[r].useTextToSpeech))
    /\ UNCHANGED <<isCollectingJson, accumulatedJsonString, settings,
                   isWaitingForProductRecs, started>>

\* synthesizeSpeech settles (a rejection is caught and logged): the handler
\* goes on to resetWaitingStates.
SpeechSettles(r) ==
    /\ build = "current"
    /\ requests[r].pc = "speaking"
    /\ isWaitingForBotResponse' = FALSE
    /\ requests' = [requests EXCEPT ![r].pc = "done"]
    /\ UNCHANGED <<messages, isCollectingJson, accumulatedJsonString, settings,
                   isWaitingForProductRecs, started, speech>>

\* ------------------------------------------------------------------------
\* The products revision of processUserInput and sendMessageToBot
\* ------------------------------------------------------------------------

\* processUserInput up to its first await; setWaitingForBot also clears
\* isWaitingForProductRecs.
StartRequestProducts ==
    /\ build = "products"
    /\ started < MaxRequests
    /\ \E userInput \in UserInputs :
          /\ trim(userInput) # <<>>
          /\ messages' = addUserMessage(messages, userInput)
          /\ isWaitingForBotResponse' = TRUE
          /\ isWaitingForProductRecs' = FALSE
          /\ started' = started + 1
          /\ requests' = [requests EXCEPT ![started + 1] =
                 [NotStarted EXCEPT !.pc = "fetch",
                                    !.useStreaming = useStreaming,
                                    !.useTextToSpeech = useTextToSpeech,
                                    !.alone = \A q \in RequestIds : ~InFlight(q)]]
    /\ UNCHANGED <<isCollectingJson, accumulatedJsonString, settings, speech>>

\* resetWaitingStates of the products revision ends call r.
FinishProducts(r, transport) ==
    /\ isWaitingForBotResponse' = FALSE
    /\ isWaitingForProductRecs' = FALSE
    /\ requests' = [requests EXCEPT ![r].pc = "done", ![r].transport = transport]

\* await import('./speechService') rejects, or the non-streaming
\* sendMessageToBot returns null after a failed fetch: resetWaitingStates.
RequestFailsProducts(r) ==
    /\ build = "products"
    /\ requests[r].pc = "fetch"
    /\ \E cause \in (IF requests[r].useStreaming THEN {"import"} ELSE {"import", "status"}) :
          FinishProducts(r, cause)
    /\ UNCHANGED <<messages, isCollectingJson, accumulatedJsonString, settings,
                   started, speech>>

\* The non-streaming branch for a response: its content (or '') is put on
\* display, the products of processMessageResponse are attached, then
\* playSpeechResponse.
respondProducts(r, data, content, products, say) ==
    /\ messages' = updateLastBotMessageWithProducts(
                       updateOrAddBotMessage(messages,
                           IF truthy(content) THEN content.str ELSE <<>>),
                       products)
    /\ speak(r, say)
    /\ isWaitingForProductRecs' = IF say # <<>> THEN isWaitingForProductRecs ELSE FALSE
    /\ requests' = [requests EXCEPT
                        ![r].pc = IF say # <<>> THEN "speaking" ELSE "done",
                        ![r].data = data,
                        ![r].transport = "closed"]

\* The non-streaming fetch resolves and its body parses.
NonStreamingResponseProducts(r) ==
    /\ build = "products"
    /\ requests[r].pc = "fetch"
    /\ ~requests[r].useStreaming
    /\ \E body \in ResponseBodies :
          /\ JSONparse(body).ok
          /\ respondProducts(r, JSONparse(body).value,
                  field(botMessage(JSONparse(body).value), KeyContent),
                  processMessageResponseProducts(botMessage(JSONparse(body).value)),
                  playSpeechResponseProducts(botMessage(JSONparse(body).value)))
    /\ UNCHANGED <<isCollectingJson, accumulatedJsonString, settings, started>>

\* makeStreamingJsonRequest starts to yield: the stream will carry one of the
\* scripts.
StreamOpens(r) ==
    /\ build = "products"
    /\ requests[r].pc = "fetch"
    /\ requests[r].useStreaming
    /\ \E wire \in SnapshotScripts :
          requests' = [requests EXCEPT ![r].pc = "read", ![r].wire = wire]
    /\ UNCHANGED <<messages, isWaitingForBotResponse, isWaitingForProductRecs,
                   isCollectingJson, accumulatedJsonString, settings, started, speech>>

\* The effect of handleStreamingChunk (h) on newText: display, then
\* setWaitingForProductRecs when a placeholder was seen.
\* A loop that keeps only the latest fragment in lastDisplay.
applyChunkKeepsLatest(r, chunk, newText, h) ==
    /\ messages' = IF h.display = <<>> THEN messages
                   ELSE updateOrAddBotMessage(messages, h.display[1])
    /\ isCollectingJson' = h.isCollectingJson
    /\ accumulatedJsonString' = h.accumulatedJsonString
    /\ isWaitingForBotResponse' = IF h.pending THEN FALSE ELSE isWaitingForBotResponse
    /\ isWaitingForProductRecs' = IF h.pending THEN TRUE ELSE isWaitingForProductRecs
    /\ requests' = [requests EXCEPT
                        ![r].wire = Tail(@),
                        ![r].jsonResponse = chunk,
                        ![r].lastDisplay = newText,
                        ![r].handled = Append(@, [payload |-> newText,
                                                  collecting |-> isCollectingJson,
                                                  buffer |-> accumulatedJsonString,
                                                  display |-> h.display])]

applyChunk(r, chunk, newText, h) ==
    /\ messages' = IF h.display = <<>> THEN messages
                   ELSE updateOrAddBotMessage(messages, h.display[1])
    /\ isCollectingJson' = h.isCollectingJson
    /\ accumulatedJsonString' = h.accumulatedJsonString
    /\ isWaitingForBotResponse' = IF h.pending THEN FALSE ELSE isWaitingForBotResponse
    /\ isWaitingForProductRecs' = IF h.pending THEN TRUE ELSE isWaitingForProductRecs
    /\ requests' = [requests EXCEPT
                        ![r].wire = Tail(@),
                        ![r].jsonResponse = chunk,
                        ![r].lastDisplay = @ \o newText,
                        ![r].handled = Append(@, [payload |-> newText,
                                                  collecting |-> isCollectingJson,
                                                  buffer |-> accumulatedJsonString,
                                                  display |-> h.display])]

\* One iteration of the loop for a chunk: it becomes jsonResponse, and the
\* part of its displayResponse beyond lastDisplay, if any, goes to onStreamChunk.
snapshot(r, chunk, newText) ==
    IF newText # <<>>
    THEN applyChunk(r, chunk, newText,
                    handleStreamingChunkProducts(newText, isCollectingJson,
                                                 accumulatedJsonString))
    ELSE /\ requests' = [requests EXCEPT ![r].wire = Tail(@), ![r].jsonResponse = chunk]
         /\ UNCHANGED <<messages, isCollectingJson, accumulatedJsonString,
                        isWaitingForBotResponse, isWaitingForProductRecs>>

NextSnapshot(r) ==
    /\ build = "products"
    /\ requests[r].pc = "read"
    /\ requests[r].wire # <<>>
    /\ snapshot(r, Head(requests[r].wire),
                IF truthy(field(Head(requests[r].wire), KeyDisplayResponse))
                THEN slice(field(Head(requests[r].wire), KeyDisplayResponse).str,
                           Len(requests[r].lastDisplay))
                ELSE <<>>)
    /\ UNCHANGED <<settings, started, speech>>

\* The request or the iteration throws: caught inside sendMessageToBot, which
\* returns null; the streaming branch has nothing after the await.
StreamFails(r) ==
    /\ build = "products"
    /\ requests[r].useStreaming
    /\ requests[r].pc \in {"fetch", "read"}
    /\ requests' = [requests EXCEPT ![r].pc = "done", ![r].transport = "read",
                                    ![r].wire = <<>>, ![r].lastDisplay = <<>>,
                                    ![r].jsonResponse = Null]
    /\ UNCHANGED <<messages, isWaitingForBotResponse, isWaitingForProductRecs,
                   isCollectingJson, accumulatedJsonString, settings, started, speech>>

\* onStreamEnd(json) of the products revision: c is what
\* handleStreamingComplete does with it; resetWaitingStates follows at once
\* unless synthesizeSpeech is awaited.
completeProducts(r, json, c) ==
    /\ isCollectingJson' = IF c.reset THEN FALSE ELSE isCollectingJson
    /\ accumulatedJsonString' = IF c.reset THEN <<>> ELSE accumulatedJsonString
    /\ messages' = IF c.attach = <<>> THEN messages
                   ELSE updateLastBotMessageWithProducts(messages, c.attach[1])
    /\ speak(r, c.synthesize)
    /\ isWaitingForProductRecs' =
           IF c.synthesize # <<>> THEN isWaitingForProductRecs ELSE FALSE
    /\ requests' = [requests EXCEPT
                        ![r].pc = IF c.synthesize # <<>> THEN "speaking" ELSE "done",
                        ![r].transport = "closed",
                        ![r].lastDisplay = <<>>,
                        ![r].jsonResponse = Null,
                        ![r].completions = Append(@, json)]

\* The iteration ends: onStreamEnd(jsonResponse).
StreamDone(r) ==
    /\ build = "products"
    /\ requests[r].pc = "read"
    /\ requests[r].wire = <<>>
    /\ completeProducts(r, requests[r].jsonResponse,
                        handleStreamingCompleteProducts(requests[r].jsonResponse))
    /\ UNCHANGED <<settings, started>>

\* synthesizeSpeech settles: resetWaitingStates clears both indicators.
SpeechSettlesProducts(r) ==
    /\ build = "products"
    /\ requests[r].pc = "speaking"
    /\ isWaitingForBotResponse' = FALSE
    /\ isWaitingForProductRecs' = FALSE
    /\ requests' = [requests EXCEPT ![r].pc = "done"]
    /\ UNCHANGED <<messages, isCollectingJson, accumulatedJsonString, settings,
                   started, speech>>

\* ------------------------------------------------------------------------
\* Specifications
\* ------------------------------------------------------------------------

Next ==
    \/ StartRequest
    \/ \E r \in RequestIds : ImportFails(r)
    \/ \E r \in RequestIds : FetchFails(r)
    \/ \E r \in RequestIds : FetchOk(r)
    \/ \E r \in RequestIds : ReadChunk(r)
    \/ \E r \in RequestIds : ReadFails(r)
    \/ \E r \in RequestIds : ReadDone(r)
    \/ \E r \in RequestIds : NonStreamingResponse(r)
    \/ \E r \in RequestIds : SpeechSettles(r)

Spec == Init /\ [][Next]_vars

\* ------------------------------------------------------------------------
\* The read loop on its own: one streaming request whose transport text is
\* cut into raw fragments in every possible way
\* ------------------------------------------------------------------------

\* A data line, a blank line, a comment line, a data line without the space,
\* a data line with a blank payload, and a last data line that no line break
\* ends.
TextLines ==
    DataLine(TextHi) \o <<"\n", ":", "k", "\n">> \o DataPrefix \o TextYo \o <<"\n">>
        \o DataLine(<<" ">>) \o DataPrefix \o <<" ", "Z">>

\* An envelope in one data line, a payload in braces that does not parse,
\* some text, and an envelope in a last line that no line break ends.
TextWholeEnvelopes ==
    DataLine(<<"{">> \o Pair(<<"a">>, <<"b">>) \o <<"}">>)
        \o DataLine(<<"{", "x", "}">>) \o DataLine(TextHi)
        \o DataPrefix \o <<"{">> \o Pair(<<"c">>, <<"d">>) \o <<"}">>

\* An envelope sent payload by payload that does not parse, then text.
TextBadEnvelope ==
    DataLine(OpenBrace) \o DataLine(<<"x">>) \o DataLine(CloseBrace) \o DataLine(TextHi)

\* Two envelopes, each in one data line.
TextTwoEnvelopes ==
    DataLine(<<"{">> \o Pair(<<"a">>, <<"b">>) \o <<"}">>)
        \o DataLine(<<"{">> \o Pair(<<"c">>, <<"d">>) \o <<"}">>)

TransportTexts == {TextLines, TextWholeEnvelopes, TextBadEnvelope, TextTwoEnvelopes}

\* The ways of cutting text into exactly k non-empty fragments.
RECURSIVE CutsInto(_, _)
CutsInto(text, k) ==
    IF k = 1 THEN {<<text>>}
    ELSE UNION {{<<SubSeq(text, 1, i)>> \o rest :
                    rest \in CutsInto(SubSeq(text, i + 1, Len(text)), k - 1)} :
                i \in 1..(Len(text) - (k - 1))}

Cuts(text) == UNION {CutsInto(text, k) : k \in 1..MaxFragments}

\* The only request of the run.
StartOnce ==
    /\ started = 0
    /\ StartRequest

\* The streaming fetch resolves with a body that will deliver one of the
\* texts, cut in one of the ways.
FetchOkCut(r) ==
    /\ build = "current"
    /\ requests[r].pc = "fetch"
    /\ requests[r].useStreaming
    /\ \E text \in TransportTexts : \E wire \in Cuts(text) :
          requests' = [requests EXCEPT ![r].pc = "read", ![r].wire = wire]
    /\ UNCHANGED <<messages, isWaitingForBotResponse, isCollectingJson,
                   accumulatedJsonString, settings, isWaitingForProductRecs,
                   started, speech>>

InitLines ==
    /\ Mounted
    /\ build = "current"
    /\ useStreaming = TRUE
    /\ useTextToSpeech = FALSE

NextLines ==
    \/ StartOnce
    \/ \E r \in RequestIds : FetchOkCut(r)
    \/ \E r \in RequestIds : ReadChunk(r)
    \/ \E r \in RequestIds : ReadFails(r)
    \/ \E r \in RequestIds : ReadDone(r)

SpecLines == InitLines /\ [][NextLines]_vars

\* ------------------------------------------------------------------------
\* The spacing repair on its own: one streaming request whose stream delivers
\* an envelope, payload by payload, with a displayResponse made of a lowercase
\* letter, an uppercase letter, a full stop and a space
\* ------------------------------------------------------------------------

DisplayAlphabet == {"a", "B", ".", " "}

RECURSIVE StringsOfLength(_)
StringsOfLength(n) ==
    IF n = 0 THEN {<<>>}
    ELSE {<<c>> \o s : c \in DisplayAlphabet, s \in StringsOfLength(n - 1)}

DisplayResponses == UNION {StringsOfLength(n) : n \in 1..MaxLen}

ScriptDisplayResponse(s) ==
    <<DataLine(OpenBrace) \o DataLine(Pair(KeyDisplayResponse, s)),
      DataLine(CloseBrace)>>

\* The streaming fetch resolves with a body that will deliver such an
\* envelope.
FetchOkDisplayResponse(r) ==
    /\ build = "current"
    /\ requests[r].pc = "fetch"
    /\ requests[r].useStreaming
    /\ \E s \in DisplayResponses :
          requests' = [requests EXCEPT ![r].pc = "read",
                                       ![r].wire = ScriptDisplayResponse(s)]
    /\ UNCHANGED <<messages, isWaitingForBotResponse, isCollectingJson,
                   accumulatedJsonString, settings, isWaitingForProductRecs,
                   started, speech>>

NextSpacing ==
    \/ StartOnce
    \/ \E r \in RequestIds : FetchOkDisplayResponse(r)
    \/ \E r \in RequestIds : ReadChunk(r)
    \/ \E r \in RequestIds : ReadFails(r)
    \/ \E r \in RequestIds : ReadDone(r)

SpecSpacing == InitLines /\ [][NextSpacing]_vars

\* ------------------------------------------------------------------------
\* The token service (part_001:225-285): getApiToken calls, which may overlap,
\* clearApiTokenCache, and the clock
\* ------------------------------------------------------------------------

\* The margin, in milliseconds, a cached token must have left.
TokenBuffer == 30000

\* What the rest of the program does not touch while the token service runs.
frontend == <<messages, isWaitingForBotResponse, isWaitingForProductRecs,
              isCollectingJson, accumulatedJsonString, useStreaming, useTextToSpeech,
              build, started, requests, speech, ignored>>

\* getApiToken up to its first await: a cached token with enough margin is
\* returned; otherwise the request to the token service is sent. Each call
\* records the time it read, whether it returned from the cache and the expiry
\* of the entry it used, and whether it is the first call after a clear.
getApiToken ==
    /\ Len(tokenCalls) < MaxTokenCalls
    /\ tokenCalls' = Append(tokenCalls,
           IF apiTokenCache # Null /\ apiTokenCache.expiresAt > now + TokenBuffer
           THEN [pc |-> "returned", now |-> now, cached |-> TRUE,
                 token |-> apiTokenCache.token,
                 expiresAt |-> apiTokenCache.expiresAt,
                 afterClear |-> cacheCleared]
           ELSE [pc |-> "fetch", now |-> now, cached |-> FALSE,
                 token |-> 0, expiresAt |-> 0, afterClear |-> cacheCleared])
    /\ cacheCleared' = FALSE
    /\ UNCHANGED <<frontend, apiTokenCache, now>>

\* The request of call c fails (fetch rejects, the status is not OK, or the
\* body does not parse): the catch logs and rethrows.
TokenFetchFails(c) ==
    /\ c \in 1..Len(tokenCalls)
    /\ tokenCalls[c].pc = "fetch"
    /\ tokenCalls' = [tokenCalls EXCEPT ![c].pc = "threw"]
    /\ UNCHANGED <<frontend, apiTokenCache, now, cacheCleared>>

\* The request of call c succeeds: the token (numbered after the call) is
\* cached with expires_on, twenty or sixty seconds from now, in milliseconds,
\* and returned.
TokenFetchOk(c) ==
    /\ c \in 1..Len(tokenCalls)
    /\ tokenCalls[c].pc = "fetch"
    /\ \E expires_on \in {(now \div 1000) + 20, (now \div 1000) + 60} :
          apiTokenCache' = [token |-> c, expiresAt |-> expires_on * 1000]
    /\ tokenCalls' = [tokenCalls EXCEPT ![c].pc = "returned", ![c].token = c]
    /\ UNCHANGED <<frontend, now, cacheCleared>>

clearApiTokenCache ==
    /\ apiTokenCache' = Null
    /\ cacheCleared' = TRUE
    /\ UNCHANGED <<frontend, now, tokenCalls>>

\* Ten seconds pass.
Tick ==
    /\ now < MaxTicks * 10000
    /\ now' = now + 10000
    /\ UNCHANGED <<frontend, apiTokenCache, tokenCalls, cacheCleared>>

NextToken ==
    \/ getApiToken
    \/ \E c \in 1..MaxTokenCalls : TokenFetchOk(c)
    \/ \E c \in 1..MaxTokenCalls : TokenFetchFails(c)
    \/ clearApiTokenCache
    \/ Tick

SpecToken == InitLines /\ [][NextToken]_vars

\* ------------------------------------------------------------------------
\* Speech that throws: requests whose voice-summary extraction or whose
\* synthesizeSpeech call can throw
\* ------------------------------------------------------------------------

\* A rejection of synthesizeSpeech that gets past resetWaitingStates.
SpeechFailsSkipsReset(r) ==
    /\ build = "current"
    /\ requests[r].pc = "speaking"
    /\ requests' = [requests EXCEPT ![r].pc = "done", ![r].speechError = TRUE]
    /\ UNCHANGED <<messages, isWaitingForBotResponse, isCollectingJson,
                   accumulatedJsonString, settings, isWaitingForProductRecs,
                   started, speech>>

\* synthesizeSpeech rejects: the catch around it logs, and the caller goes on
\* to resetWaitingStates.
SpeechFails(r) ==
    /\ build = "current"
    /\ requests[r].pc = "speaking"
    /\ isWaitingForBotResponse' = FALSE
    /\ requests' = [requests EXCEPT ![r].pc = "done", ![r].speechError = TRUE]
    /\ UNCHANGED <<messages, isCollectingJson, accumulatedJsonString, settings,
                   isWaitingForProductRecs, started, speech>>

\* The stream closes with an envelope and extractVoiceSummaryFromResponse
\* throws in handleStreamingComplete: the accumulation variables were reset
\* before, the catch logs, nothing is synthesized, then resetWaitingStates.
ReadDoneExtractionThrows(r) ==
    /\ build = "current"
    /\ requests[r].pc = "read"
    /\ requests[r].wire = <<>>
    /\ requests[r].jsonResponse # Null
    /\ requests[r].useTextToSpeech
    /\ isCollectingJson' = FALSE
    /\ accumulatedJsonString' = <<>>
    /\ isWaitingForBotResponse' = FALSE
    /\ requests' = [requests EXCEPT
                        ![r].pc = "done",
                        ![r].transport = "closed",
                        ![r].buffer = <<>>,
                        ![r].received = <<>>,
                        ![r].jsonResponse = Null,
                        ![r].completions = Append(@, requests[r].jsonResponse),
                        ![r].speechError = TRUE]
    /\ UNCHANGED <<messages, settings, isWaitingForProductRecs, started, speech>>

\* The non-streaming response arrives and extractVoiceSummaryFromResponse
\* throws in playSpeechResponse: the content is on display already, the catch
\* logs, nothing is synthesized, then resetWaitingStates.
NonStreamingExtractionThrows(r) ==
    /\ build = "current"
    /\ requests[r].pc = "fetch"
    /\ ~requests[r].useStreaming
    /\ requests[r].useTextToSpeech
    /\ \E body \in ResponseBodies :
          /\ JSONparse(body).ok
          /\ messages' = updateOrAddBotMessage(messages,
                 IF truthy(field(JSONparse(body).value, KeyDisplayResponse))
                 THEN field(JSONparse(body).value, KeyDisplayResponse).str
                 ELSE <<>>)
          /\ requests' = [requests EXCEPT ![r].pc = "done",
                                          ![r].data = JSONparse(body).value,
                                          ![r].transport = "closed",
                                          ![r].speechError = TRUE]
    /\ isWaitingForBotResponse' = FALSE
    /\ UNCHANGED <<isCollectingJson, accumulatedJsonString, settings,
                   isWaitingForProductRecs, started, speech>>

\* Speech is on.
InitSpeech ==
    /\ Mounted
    /\ build = "current"
    /\ useStreaming \in BOOLEAN
    /\ useTextToSpeech = TRUE

NextSpeech ==
    \/ StartRequest
    \/ \E r \in RequestIds : ImportFails(r)
    \/ \E r \in RequestIds : FetchFails(r)
    \/ \E r \in RequestIds : FetchOk(r)
    \/ \E r \in RequestIds : ReadChunk(r)
    \/ \E r \in RequestIds : ReadFails(r)
    \/ \E r \in RequestIds : ReadDone(r)
    \/ \E r \in RequestIds : ReadDoneExtractionThrows(r)
    \/ \E r \in RequestIds : NonStreamingResponse(r)
    \/ \E r \in RequestIds : NonStreamingExtractionThrows(r)
    \/ \E r \in RequestIds : SpeechSettles(r)
    \/ \E r \in RequestIds : SpeechFails(r)

SpecSpeech == InitSpeech /\ [][NextSpeech]_vars

\* ------------------------------------------------------------------------
\* Empty inputs: one request, and processUserInput called with inputs that
\* are empty or white space only, at any moment
\* ------------------------------------------------------------------------

EmptyInputs == {<<>>, <<" ">>, <<" ", "\n">>}

\* processUserInput with an input that trims to nothing, taken as any other
\* input is.
EmptyInputAccepted ==
    /\ build = "current"
    /\ ignored < MaxIgnored
    /\ \E userInput \in EmptyInputs :
          /\ messages' = addUserMessage(messages, userInput)
          /\ isWaitingForBotResponse' = TRUE
    /\ ignored' = ignored + 1
    /\ UNCHANGED <<isCollectingJson, accumulatedJsonString, useStreaming,
                   useTextToSpeech, build, isWaitingForProductRecs, started,
                   requests, speech, apiTokenCache, now, tokenCalls, cacheCleared>>

\* processUserInput with an input that trims to nothing: it returns before
\* its first statement.
EmptyInput ==
    /\ build = "current"
    /\ ignored < MaxIgnored
    /\ \E userInput \in EmptyInputs : trim(userInput) = <<>>
    /\ ignored' = ignored + 1
    /\ UNCHANGED <<messages, isWaitingForBotResponse, isCollectingJson,
                   accumulatedJsonString, useStreaming, useTextToSpeech, build,
                   isWaitingForProductRecs, started, requests, speech,
                   apiTokenCache, now, tokenCalls, cacheCleared>>

NextInputs ==
    \/ StartOnce
    \/ EmptyInput
    \/ \E r \in RequestIds : ImportFails(r)
    \/ \E r \in RequestIds : FetchFails(r)
    \/ \E r \in RequestIds : FetchOk(r)
    \/ \E r \in RequestIds : ReadChunk(r)
    \/ \E r \in RequestIds : ReadFails(r)
    \/ \E r \in RequestIds : ReadDone(r)
    \/ \E r \in RequestIds : NonStreamingResponse(r)
    \/ \E r \in RequestIds : SpeechSettles(r)

SpecInputs == Init /\ [][NextInputs]_vars

\* The products revision; it has no speech setting and always speaks.
InitProducts ==
    /\ Mounted
    /\ build = "products"
    /\ useStreaming \in BOOLEAN
    /\ useTextToSpeech = TRUE

NextProducts ==
    \/ StartRequestProducts
    \/ \E r \in RequestIds : RequestFailsProducts(r)
    \/ \E r \in RequestIds : NonStreamingResponseProducts(r)
    \/ \E r \in RequestIds : StreamOpens(r)
    \/ \E r \in RequestIds : NextSnapshot(r)
    \/ \E r \in RequestIds : StreamFails(r)
    \/ \E r \in RequestIds : StreamDone(r)
    \/ \E r \in RequestIds : SpeechSettlesProducts(r)

SpecProducts == InitProducts /\ [][NextProducts]_vars

\* Either revision.
InitBuilds == Init \/ InitProducts

NextBuilds == Next \/ NextProducts

SpecBuilds == InitBuilds /\ [][NextBuilds]_vars

\* ------------------------------------------------------------------------
\* What the streams did, read off the record of each call
\* ------------------------------------------------------------------------

RECURSIVE concat(_)
concat(strings) == IF strings = <<>> THEN <<>> ELSE Head(strings) \o concat(Tail(strings))

payloads(r) == [i \in 1..Len(requests[r].handled) |-> requests[r].handled[i].payload]

\* The nesting depth of the envelope after the first n payloads of a stream:
\* a '{' payload opens a level, a '}' payload closes one.
RECURSIVE depth(_, _)
depth(handled, n) ==
    IF n = 0 THEN 0
    ELSE IF handled[n].payload = OpenBrace THEN depth(handled, n - 1) + 1
    ELSE IF handled[n].payload = CloseBrace /\ depth(handled, n - 1) > 0
         THEN depth(handled, n - 1) - 1
    ELSE depth(handled, n - 1)

\* Payload i of the stream belongs to the envelope: it opens it, or it comes
\* while the envelope is open (its final '}' included).
inEnvelope(handled, i) ==
    handled[i].payload = OpenBrace \/ depth(handled, i - 1) > 0

\* Payload i is the final '}' of an envelope, and the chunk reconstructor
\* parsed the buffer it closed.
parsedAt(handled, i) ==
    /\ handled[i].collecting
    /\ handled[i].payload = CloseBrace
    /\ depth(handled, i) = 0
    /\ JSONparse(handled[i].buffer \o CloseBrace).ok

\* The last envelope the chunk reconstructor parsed in the stream, or null.
RECURSIVE lastParsed(_, _)
lastParsed(handled, n) ==
    IF n = 0 THEN Null
    ELSE IF parsedAt(handled, n) THEN JSONparse(handled[n].buffer \o CloseBrace).value
    ELSE lastParsed(handled, n - 1)

\* The complete lines of a transport text: all pieces but the last.
completeLines(text) == SubSeq(split(text), 1, Len(split(text)) - 1)

\* What the read loop does with a text that arrives as a single fragment,
\* starting from a fresh state.
singleFragment(text) ==
    processLines(completeLines(text),
                 [messages |-> <<>>, isCollectingJson |-> FALSE,
                  accumulatedJsonString |-> <<>>, jsonResponse |-> Null,
                  handled |-> <<>>])

\* The payloads forwarded when the text arrives as a single fragment.
forwarded(text) ==
    [i \in 1..Len(singleFragment(text).handled) |->
        singleFragment(text).handled[i].payload]

\* The complete lines of a transport text that start with 'data:'.
dataLines(text) == SelectSeq(completeLines(text), LAMBDA line : startsWith(line, DataPrefix))

\* The payloads carried by the complete lines of a transport text, in the
\* order of the lines: what follows 'data:', trimmed, when something is left.
linePayloads(text) ==
    SelectSeq([i \in 1..Len(dataLines(text)) |-> trim(slice(dataLines(text)[i], 5))],
              LAMBDA dataStr : dataStr # <<>>)

\* The texts call r passed to updateOrAddBotMessage, joined in the order of
\* the payloads that produced them.
displayedBy(r) ==
    concat([i \in 1..Len(requests[r].handled) |->
               concat(requests[r].handled[i].display)])

\* The accumulation state payload i of call r left behind: the state the next
\* payload was handled in, or the present one after the last payload.
leftBy(r, i) ==
    IF i < Len(requests[r].handled)
    THEN [isCollectingJson |-> requests[r].handled[i + 1].collecting,
          accumulatedJsonString |-> requests[r].handled[i + 1].buffer]
    ELSE [isCollectingJson |-> isCollectingJson,
          accumulatedJsonString |-> accumulatedJsonString]

\* Payload i of call r is a '}' that closed a buffer JSON.parse rejects.
closedUnparseable(r, i) ==
    /\ requests[r].handled[i].collecting
    /\ requests[r].handled[i].payload = CloseBrace
    /\ ~JSONparse(requests[r].handled[i].buffer \o CloseBrace).ok

\* The length a displayResponse must exceed for handleStreamingComplete to
\* repair its spacing.
MinRepairLength == 15

\* The displayResponse of the envelope that payload i of call r closed:
\* undefined when the payload closed nothing or the buffer did not parse.
closedDisplayResponse(r, i) ==
    IF requests[r].handled[i].collecting /\ requests[r].handled[i].payload = CloseBrace
    THEN field(JSONparse(requests[r].handled[i].buffer \o CloseBrace).value,
               KeyDisplayResponse)
    ELSE Undefined

\* A space belongs between the characters before and after: a lowercase
\* letter or one of '.', '!', '?' directly followed by an uppercase letter.
boundary(before, after) ==
    /\ before \in LowerCase \cup SentenceEnd
    /\ after \in UpperCase

\* s from position i on, with one space put in at every boundary.
RECURSIVE withSpaces(_, _)
withSpaces(s, i) ==
    IF i > Len(s) THEN <<>>
    ELSE IF i < Len(s) /\ boundary(s[i], s[i + 1])
         THEN <<s[i], " ">> \o withSpaces(s, i + 1)
         ELSE <<s[i]>> \o withSpaces(s, i + 1)

\* The value of the last of the first n payloads that starts with '{', ends
\* with '}' and parses; null when there is none.
RECURSIVE lastWholeEnvelope(_, _)
lastWholeEnvelope(dataStrs, n) ==
    IF n = 0 THEN Null
    ELSE IF /\ startsWith(dataStrs[n], OpenBrace)
            /\ endsWith(dataStrs[n], CloseBrace)
            /\ JSONparse(dataStrs[n]).ok
         THEN JSONparse(dataStrs[n]).value
    ELSE lastWholeEnvelope(dataStrs, n - 1)

\* The position of the first '{' payload of a stream, 0 when there is none.
RECURSIVE firstOpen(_, _)
firstOpen(handled, i) ==
    IF i > Len(handled) THEN 0
    ELSE IF handled[i].payload = OpenBrace THEN i
    ELSE firstOpen(handled, i + 1)

\* The payloads of call r that came before its first '{' payload, joined.
textBefore(r) ==
    concat(SubSeq(payloads(r), 1, firstOpen(requests[r].handled, 1) - 1))

\* The stream of call r ended normally after an opening '{' payload and
\* without any '}' payload.
EndedInsideEnvelope(r) ==
    /\ requests[r].pc = "done"
    /\ requests[r].transport = "closed"
    /\ firstOpen(requests[r].handled, 1) # 0
    /\ \A i \in 1..Len(requests[r].handled) :
           requests[r].handled[i].payload # CloseBrace

TransportFailed(r) == requests[r].transport \in {"status", "reader", "read"}

\* How the promise of sendMessageToBot settled for call r, once it has: the
\* catch resolves it with null, the streaming branch resolves it with null
\* after onStreamEnd, the non-streaming branch resolves it with the Message.
\* No path rejects it.
sendMessageToBotSettled(r) ==
    IF TransportFailed(r) THEN [kind |-> "resolved", value |-> Null]
    ELSE IF requests[r].useStreaming THEN [kind |-> "resolved", value |-> Null]
    ELSE [kind |-> "resolved", value |-> botMessage(requests[r].data)]

\* The texts call r handed to synthesizeSpeech, in order.
spokenBy(r) ==
    [i \in 1..Len(SelectSeq(speech, LAMBDA e : e.request = r)) |->
        SelectSeq(speech, LAMBDA e : e.request = r)[i].text]


\* ------------------------------------------------------------------------
\* Claims
\* ------------------------------------------------------------------------

\* C1: when the first payload of a stream is handled, the accumulation state
\* is TEXT mode with an empty buffer, whatever earlier streams did. Stated for
\* the streams that run with no other call in flight, so that only streams
\* that are over can have touched the state.
C1_FirstPayloadFindsTextAndEmptyBuffer ==
    \A r \in RequestIds :
        (requests[r].alone /\ started = r /\ requests[r].handled # <<>>) =>
            /\ ~requests[r].handled[1].collecting
            /\ requests[r].handled[1].buffer = <<>>

\* C2: once a later request has started, a callback of an earlier stream
\* (a display fragment or its completion) leaves the message list unchanged.
C2_StaleCallbacksLeaveMessages ==
    [][\A r \in RequestIds :
          (r < started /\ requests[r].pc = "read" /\ requests'[r] # requests[r])
              => messages' = messages]_vars

\* C3: no payload of the structured envelope (its opening '{', what comes
\* between, its final '}') is passed to updateOrAddBotMessage as display text.
C3_NoEnvelopePayloadOnDisplay ==
    \A r \in RequestIds : \A i \in 1..Len(requests[r].handled) :
        inEnvelope(requests[r].handled, i) =>
            requests[r].handled[i].display # <<requests[r].handled[i].payload>>

\* C4: a stream whose payloads so far hold no '{' and no '}', handled from
\* TEXT mode right after the user's message with no other call around, has
\* made the last message a bot message whose content is the concatenation of
\* the payloads in order.
C4_TextStreamIsConcatenation ==
    \A r \in RequestIds :
        (/\ requests[r].alone
         /\ started = r
         /\ requests[r].handled # <<>>
         /\ ~requests[r].handled[1].collecting
         /\ \A i \in 1..Len(requests[r].handled) :
                requests[r].handled[i].payload \notin {OpenBrace, CloseBrace})
        => /\ messages[Len(messages)].role = "bot"
           /\ messages[Len(messages)].content = concat(payloads(r))
           /\ messages[Len(messages) - 1].role = "user"

\* C4 witness: a stream of two text payloads and nothing else, fully handled.
C4_Witness ==
    \E r \in RequestIds :
        /\ requests[r].alone
        /\ started = r
        /\ payloads(r) = <<TextHi, TextYo>>
        /\ requests[r].pc = "done"
        /\ messages[Len(messages)].content = TextHi \o TextYo

\* C5: after a transport failure the waiting indicator becomes false: when no
\* call is in flight any more and one of them failed, it is false.
C5_FailureClearsWaiting ==
    ((\A r \in RequestIds : ~InFlight(r)) /\ (\E r \in RequestIds : TransportFailed(r)))
        => ~isWaitingForBotResponse

\* C6: a stream that was opened and has ended, however it ended, has run its
\* completion callback exactly once.
C6_CompletionExactlyOnce ==
    \A r \in RequestIds :
        (requests[r].pc = "done" /\ requests[r].transport \in {"read", "closed"}
         /\ requests[r].useStreaming)
            => Len(requests[r].completions) = 1

\* C7: if the chunk reconstructor parsed an envelope during the stream, the
\* completion callback receives the last envelope it parsed.
C7_CompletionReceivesParsedEnvelope ==
    \A r \in RequestIds : \A i \in 1..Len(requests[r].completions) :
        lastParsed(requests[r].handled, Len(requests[r].handled)) # Null
            => requests[r].completions[i]
                   = lastParsed(requests[r].handled, Len(requests[r].handled))

\* C8: a call made with useTextToSpeech false never invokes synthesizeSpeech.
C8_NoSpeechWhenDisabled ==
    \A i \in 1..Len(speech) : requests[speech[i].request].useTextToSpeech

\* C8 witness: with speech disabled, a stream completed with an envelope that
\* has a voiceSummary, and nothing was synthesized.
C8_Witness ==
    /\ speech = <<>>
    /\ \E r \in RequestIds :
          /\ ~requests[r].useTextToSpeech
          /\ requests[r].useStreaming
          /\ requests[r].pc = "done"
          /\ requests[r].completions # <<>>
          /\ truthy(field(requests[r].completions[1], KeyVoiceSummary))

\* C9: completion with an envelope and speech enabled synthesizes the
\* envelope's voiceSummary if it has one, otherwise the bot message's current
\* display content, and nothing only when neither exists.
C9_SpeechTextPriority ==
    [][\A r \in RequestIds : \A i \in 1..Len(requests'[r].completions) :
          (/\ Len(requests'[r].completions) = Len(requests[r].completions) + 1
           /\ requests'[r].completions[i] # Null
           /\ requests[r].useTextToSpeech)
          => speech' = speech \o
                IF truthy(field(requests'[r].completions[i], KeyVoiceSummary))
                THEN <<[request |-> r,
                        text |-> field(requests'[r].completions[i], KeyVoiceSummary).str]>>
                ELSE IF messages # <<>> /\ messages[Len(messages)].role = "bot"
                        /\ messages[Len(messages)].content # <<>>
                     THEN <<[request |-> r, text |-> messages[Len(messages)].content]>>
                     ELSE <<>>]_vars

\* C10: a completion callback that receives null attaches no recommendation
\* list to any message, synthesizes nothing and leaves the message list as it
\* was, in either revision.
C10_NullCompletionChangesNothing ==
    [][\A r \in RequestIds :
          (/\ Len(requests'[r].completions) = Len(requests[r].completions) + 1
           /\ requests'[r].completions[Len(requests'[r].completions)] = Null)
          => /\ messages' = messages
             /\ speech' = speech]_vars

\* The products revision displayed streamed text and then completed with
\* null: the bot message carries no recommendation list and nothing was
\* synthesized.
C10_Witness ==
    /\ build = "products"
    /\ speech = <<>>
    /\ \E r \in RequestIds :
          /\ requests[r].completions = <<Null>>
          /\ requests[r].handled # <<>>
          /\ requests[r].pc = "done"
          /\ messages[Len(messages)].role = "bot"
          /\ messages[Len(messages)].content = TextHi
          /\ messages[Len(messages)].recommendedProducts = Undefined

\* C11: a non-streaming response with a displayResponse and a voiceSummary
\* leads to the synthesis the completion handler of the streaming path
\* performs for the same envelope.
C11_NonStreamingSpeaksAsStreaming ==
    \A r \in RequestIds :
        (/\ ~requests[r].useStreaming
         /\ requests[r].pc = "done"
         /\ requests[r].transport = "closed"
         /\ truthy(field(requests[r].data, KeyDisplayResponse))
         /\ truthy(field(requests[r].data, KeyVoiceSummary)))
        => spokenBy(r) = handleStreamingComplete(requests[r].data,
                                                 requests[r].useTextToSpeech).synthesize

\* C12: when completion receives an envelope with a list of recommended
\* products, the most recent bot message gets exactly that list and every
\* other message stays as it was.
C12_ProductsOnLastBotMessageOnly ==
    [][\A r \in RequestIds :
          (/\ build = "products"
           /\ Len(requests'[r].completions) = Len(requests[r].completions) + 1
           /\ field(requests'[r].completions[Len(requests'[r].completions)],
                    KeyRecommendedProducts).type = "array"
           /\ lastBotIdx(messages, Len(messages)) # 0)
          => messages' =
                 [messages EXCEPT ![lastBotIdx(messages, Len(messages))].recommendedProducts =
                      field(requests'[r].completions[Len(requests'[r].completions)],
                            KeyRecommendedProducts)]]_vars

\* C12 witness: two bot messages; the later one carries the two products of
\* the envelope its stream completed with, the earlier one carries none.
C12_Witness ==
    /\ build = "products"
    /\ Len(messages) = 4
    /\ messages[2].role = "bot"
    /\ messages[2].recommendedProducts = Undefined
    /\ messages[4].role = "bot"
    /\ messages[4].recommendedProducts = field(SnapshotFull, KeyRecommendedProducts)
    /\ Len(messages[4].recommendedProducts.items) = 2
    /\ requests[2].completions = <<SnapshotFull>>

\* C13: a stream that ends after an opening '{' payload and before any '}'
\* payload completes with null, and the bot message content is exactly the
\* text streamed before the envelope began. Stated for the streams that run
\* with no other call in flight, after whose end nothing else was started.
C13_TruncatedEnvelopeKeepsText ==
    \A r \in RequestIds :
        (requests[r].alone /\ started = r /\ EndedInsideEnvelope(r)
         /\ textBefore(r) # <<>>)
        => /\ requests[r].completions = <<Null>>
           /\ messages[Len(messages)].role = "bot"
           /\ messages[Len(messages)].content = textBefore(r)

\* C14: the accumulation mode goes from TEXT to COLLECTING only on a '{'
\* payload and from COLLECTING to TEXT only on a '}' payload, and no '{'
\* payload starts a collection while one is already going on.
C14_ModeChangesOnBracesOnly ==
    [][/\ (~isCollectingJson /\ isCollectingJson') =>
              \E r \in RequestIds :
                  \E i \in (Len(requests[r].handled) + 1)..Len(requests'[r].handled) :
                      requests'[r].handled[i].payload = OpenBrace
       /\ (isCollectingJson /\ ~isCollectingJson') =>
              \E r \in RequestIds :
                  \E i \in (Len(requests[r].handled) + 1)..Len(requests'[r].handled) :
                      requests'[r].handled[i].payload = CloseBrace
       /\ \A r \in RequestIds :
              \A i \in (Len(requests[r].handled) + 1)..Len(requests'[r].handled) :
                  requests'[r].handled[i].payload = OpenBrace
                      => ~requests'[r].handled[i].collecting]_vars

\* C15: every step keeps each message's content as a prefix of its new
\* content: no message is removed, and text already displayed is never
\* changed or taken away.
C15_ContentOnlyGrows ==
    [][/\ Len(messages') >= Len(messages)
       /\ \A i \in 1..Len(messages) :
              /\ messages'[i].role = messages[i].role
              /\ startsWith(messages'[i].content, messages[i].content)]_vars

\* C15 witness: a bot message that got streamed text and then the formatted
\* displayResponse of an envelope collected payload by payload.
C15_Witness ==
    \E r \in RequestIds :
        /\ requests[r].pc = "done"
        /\ payloads(r) = <<TextHi, OpenBrace, EnvelopeBody, CloseBrace>>
        /\ messages[Len(messages)].role = "bot"
        /\ messages[Len(messages)].content = TextHi \o <<"a", " ", "B">>

\* C16: the step in which a call's transport fails leaves the message list
\* exactly as it was: partial display text is kept, nothing is removed or
\* altered.
C16_FailureKeepsMessages ==
    [][\A r \in RequestIds :
          (~TransportFailed(r) /\ TransportFailed(r)') => messages' = messages]_vars

\* C16 witness: a read failed after text was displayed, and the bot message
\* still holds that text.
C16_Witness ==
    \E r \in RequestIds :
        /\ requests[r].transport = "read"
        /\ requests[r].alone
        /\ started = r
        /\ payloads(r) = <<TextHi>>
        /\ messages[Len(messages)].role = "bot"
        /\ messages[Len(messages)].content = TextHi

\* C17: what sendMessageToBot hands back to its caller after a transport
\* failure differs from what it hands back after a stream that completed
\* normally.
C17_TransportFailureSurfaced ==
    \A failed, completed \in RequestIds :
        (/\ requests[failed].pc = "done"
         /\ TransportFailed(failed)
         /\ requests[completed].pc = "done"
         /\ requests[completed].transport = "closed")
        => sendMessageToBotSettled(failed) # sendMessageToBotSettled(completed)

\* C18: the step that takes a user input appends exactly one user message
\* with that content at the end of the list and leaves every existing message
\* as it was, whatever the last message is.
C18_UserMessageAlwaysAppended ==
    [][started' = started + 1 =>
          /\ Len(messages') = Len(messages) + 1
          /\ SubSeq(messages', 1, Len(messages)) = messages
          /\ messages'[Len(messages')].role = "user"
          /\ messages'[Len(messages')].content \in UserInputs]_vars

\* C18 witness: two user messages in a row, the second added while the first
\* was still the last message of the list.
C18_Witness ==
    /\ started = 2
    /\ Len(messages) = 2
    /\ messages[1].role = "user"
    /\ messages[2].role = "user"
    /\ messages[1].content \in UserInputs
    /\ messages[2].content \in UserInputs

\* C19: a step that puts exactly one fragment on display appends it to the
\* content of the last message when that is a bot message, the list keeping
\* its length, and otherwise appends one new bot message whose content is the
\* fragment; all other messages stay as they were.
C19_AppendToLastBotOrAdd ==
    [][\A r \in RequestIds :
          (/\ Len(requests'[r].handled) = Len(requests[r].handled) + 1
           /\ requests'[r].handled[Len(requests'[r].handled)].display # <<>>)
          => IF messages # <<>> /\ messages[Len(messages)].role = "bot"
             THEN messages' =
                      [messages EXCEPT ![Len(messages)].content =
                           @ \o requests'[r].handled[Len(requests'[r].handled)].display[1]]
             ELSE /\ Len(messages') = Len(messages) + 1
                  /\ SubSeq(messages', 1, Len(messages)) = messages
                  /\ messages'[Len(messages')].role = "bot"
                  /\ messages'[Len(messages')].content =
                         requests'[r].handled[Len(requests'[r].handled)].display[1]]_vars

\* C19 witness: one fragment created the bot message after the user's
\* message and a second one was appended to it.
C19_Witness ==
    /\ Len(messages) = 2
    /\ messages[1].role = "user"
    /\ messages[2].role = "bot"
    /\ messages[2].content = TextHi \o TextYo
    /\ Len(requests[1].handled) = 2
    /\ requests[1].handled[1].display = <<TextHi>>
    /\ requests[1].handled[2].display = <<TextYo>>

\* C20: the call of updateLastBotMessageWithProducts made by a completion
\* with an envelope leaves the list as it was when it holds no bot message,
\* and otherwise sets the list of products (or the empty one) on the last bot
\* message found scanning backward, whatever follows it.
C20_ProductsNeedABotMessage ==
    [][\A r \in RequestIds :
          (/\ build = "products"
           /\ Len(requests'[r].completions) = Len(requests[r].completions) + 1
           /\ requests'[r].completions[Len(requests'[r].completions)] # Null)
          => IF \A i \in 1..Len(messages) : messages[i].role # "bot"
             THEN messages' = messages
             ELSE \E i \in 1..Len(messages) :
                     /\ messages[i].role = "bot"
                     /\ \A j \in (i + 1)..Len(messages) : messages[j].role # "bot"
                     /\ messages' = [messages EXCEPT ![i].recommendedProducts =
                            IF field(requests'[r].completions[
                                         Len(requests'[r].completions)],
                                     KeyRecommendedProducts).type = "array"
                            THEN field(requests'[r].completions[
                                           Len(requests'[r].completions)],
                                       KeyRecommendedProducts)
                            ELSE JArray(<<>>)]]_vars

\* C20 witness: the second stream displayed nothing and completed with
\* products: they sit on the bot message of the first exchange although a
\* user message follows it.
C20_Witness ==
    /\ build = "products"
    /\ Len(messages) = 3
    /\ messages[2].role = "bot"
    /\ messages[3].role = "user"
    /\ requests[1].completions = <<Null>>
    /\ requests[2].completions = <<SnapshotProductsOnly>>
    /\ messages[2].recommendedProducts = field(SnapshotProductsOnly, KeyRecommendedProducts)

\* C21: however the text received so far was cut into fragments, the
\* payloads forwarded to the chunk handler are those forwarded when that text
\* arrives as a single fragment.
C21_CutsForwardTheSamePayloads ==
    \A r \in RequestIds :
        requests[r].pc = "read" =>
            payloads(r) = forwarded(requests[r].received)

\* C21 witness: two payloads were forwarded, the beginning of the next line
\* is carried over in the line buffer, and one fragment is still to come.
C21_Witness ==
    \E r \in RequestIds :
        /\ requests[r].pc = "read"
        /\ payloads(r) = <<TextHi, TextYo>>
        /\ requests[r].buffer = <<"d", "a">>
        /\ Len(requests[r].wire) = 1

\* C22: when the transport closes, the unterminated text left in the line
\* buffer is dropped: the close forwards no payload and displays nothing, and
\* the envelope handed to onStreamEnd is the one the complete lines produced.
C22_LeftoverIsDiscarded ==
    [][\A r \in RequestIds :
          (/\ requests[r].pc = "read"
           /\ requests'[r].transport = "closed"
           /\ requests[r].buffer # <<>>)
          => /\ requests'[r].handled = requests[r].handled
             /\ messages' = messages
             /\ requests'[r].completions =
                    Append(requests[r].completions,
                           singleFragment(requests[r].received).jsonResponse)]_vars

\* C22 witness: a stream closed with 'data:{"c":"d"}' left unterminated in the
\* buffer; the three complete payloads were forwarded and the envelope handed
\* over is the earlier {"a":"b"}.
C22_Witness ==
    \E r \in RequestIds :
        /\ requests[r].pc = "done"
        /\ requests[r].transport = "closed"
        /\ Len(requests[r].handled) = 3
        /\ requests[r].handled[3].payload = TextHi
        /\ requests[r].completions =
               <<JObject(<<[key |-> <<"a">>, value |-> JString(<<"b">>)]>>)>>

\* C23: the payloads forwarded to the chunk handler are, one for one and in
\* order, those of the complete lines that start with 'data:'; no other line
\* forwards anything.
C23_DataLinesForwardPayloads ==
    \A r \in RequestIds :
        requests[r].pc = "read" =>
            payloads(r) = [i \in 1..Len(dataLines(requests[r].received)) |->
                              trim(slice(dataLines(requests[r].received)[i], 5))]

\* C24: the payloads are handled in the order of their lines in the transport
\* text, and the bot message holds the display fragments joined in that order.
C24_HandledInArrivalOrder ==
    \A r \in RequestIds :
        /\ requests[r].pc = "read" =>
               payloads(r) = linePayloads(requests[r].received)
        /\ displayedBy(r) # <<>> =>
               /\ messages[Len(messages)].role = "bot"
               /\ messages[Len(messages)].content = displayedBy(r)

\* C24 witness: every fragment of 'data: Hi', a blank line, ':k', 'data:yo',
\* ... was read; the bot message reads 'Hiyo'.
C24_Witness ==
    \E r \in RequestIds :
        /\ requests[r].pc = "read"
        /\ requests[r].wire = <<>>
        /\ requests[r].received = TextLines
        /\ messages[Len(messages)].role = "bot"
        /\ messages[Len(messages)].content = TextHi \o TextYo

\* C25: when a collection opened by a '{' payload reaches its first '}'
\* payload, the buffer with that '}' appended is the concatenation of every
\* payload of the stream from the opening '{' through the '}'.
C25_BufferHoldsEveryPayload ==
    \A r \in RequestIds :
        (requests[r].alone /\ started = r) =>
            \A j, i \in 1..Len(requests[r].handled) :
                (/\ j < i
                 /\ requests[r].handled[j].payload = OpenBrace
                 /\ ~requests[r].handled[j].collecting
                 /\ requests[r].handled[i].payload = CloseBrace
                 /\ \A k \in (j + 1)..(i - 1) :
                        requests[r].handled[k].payload # CloseBrace)
                => requests[r].handled[i].buffer \o CloseBrace
                       = concat(SubSeq(payloads(r), j, i))

C27_RepairOnlyLongUnspaced ==
    \A r \in RequestIds :
        \A i \in 1..Len(requests[r].handled) :
            (/\ closedDisplayResponse(r, i).type = "string"
             /\ closedDisplayResponse(r, i).str # <<>>
             /\ \/ \E n \in 1..Len(closedDisplayResponse(r, i).str) :
                       closedDisplayResponse(r, i).str[n] \in WhiteSpace
                \/ Len(closedDisplayResponse(r, i).str) <= MinRepairLength)
            => requests[r].handled[i].display = <<closedDisplayResponse(r, i).str>>

\* C28: the displayResponse of a parsed envelope is put on display with
\* exactly one space inserted wherever a lowercase letter, or one of '.', '!',
\* '?', is directly followed by an uppercase letter, and otherwise as it is.
C28_RepairInsertsOneSpacePerBoundary ==
    \A r \in RequestIds :
        \A i \in 1..Len(requests[r].handled) :
            (/\ closedDisplayResponse(r, i).type = "string"
             /\ closedDisplayResponse(r, i).str # <<>>)
            => requests[r].handled[i].display
                   = <<withSpaces(closedDisplayResponse(r, i).str, 1)>>

\* C28 witness: the displayResponse 'aB.B' was put on display as 'a B. B'.
C28_Witness ==
    \E r \in RequestIds :
        /\ Len(requests[r].handled) = 3
        /\ closedDisplayResponse(r, 3) = JString(<<"a", "B", ".", "B">>)
        /\ messages[Len(messages)].role = "bot"
        /\ messages[Len(messages)].content = <<"a", " ", "B", ".", " ", "B">>

\* C29: the step that handles a payload containing
\* 'RECOMMENDED_PRODUCTS_PLACEHOLDER' or 'Looking for product
\* recommendations...' raises the recommendations-pending indicator, whether
\* or not a collection is going on; when none is, the step leaves the mode and
\* the buffer as they were.
C29_PlaceholderAlwaysNotifies ==
    [][\A r \in RequestIds :
          (/\ Len(requests'[r].handled) = Len(requests[r].handled) + 1
           /\ \/ includesString(requests'[r].handled[Len(requests'[r].handled)].payload,
                                ProductsPlaceholder)
              \/ includesString(requests'[r].handled[Len(requests'[r].handled)].payload,
                                LookingForProducts))
          => /\ isWaitingForProductRecs'
             /\ ~isCollectingJson =>
                    /\ isCollectingJson' = isCollectingJson
                    /\ accumulatedJsonString' = accumulatedJsonString]_vars

\* C29 witness: the text 'Looking for product recommendations...' was put on
\* display and the recommendations-pending indicator is up.
C29_Witness ==
    /\ isWaitingForProductRecs
    /\ ~isCollectingJson
    /\ messages # <<>>
    /\ messages[Len(messages)].role = "bot"
    /\ messages[Len(messages)].content = LookingForProducts

\* C30: when the stream closes, onStreamEnd receives the value of the last
\* forwarded payload that starts with '{', ends with '}' and parses, or null
\* when no payload did; a payload in braces that does not parse leaves an
\* envelope saved earlier in place.
C30_LastWholeEnvelopeHandedOver ==
    [][\A r \in RequestIds :
          (requests[r].pc = "read" /\ requests'[r].transport = "closed")
          => requests'[r].completions =
                 Append(requests[r].completions,
                        lastWholeEnvelope(payloads(r), Len(requests[r].handled)))]_vars

\* C30 witness: the stream '{"a":"b"}', '{x}', 'Hi' closed and onStreamEnd
\* received {"a":"b"}, the payload '{x}' notwithstanding.
C30_Witness ==
    \E r \in RequestIds :
        /\ requests[r].transport = "closed"
        /\ Len(requests[r].handled) >= 2
        /\ requests[r].handled[2].payload = <<"{", "x", "}">>
        /\ requests[r].completions =
               <<Snapshot(<<"{">> \o Pair(<<"a">>, <<"b">>) \o <<"}">>)>>

\* C31: the message list never holds two bot messages next to each other,
\* whatever the requests, overlapping or not, have put on display.
C31_NoAdjacentBotMessages ==
    \A i \in 1..(Len(messages) - 1) :
        ~(messages[i].role = "bot" /\ messages[i + 1].role = "bot")

\* C31 witness: two requests overlapped, each put a fragment on display, and
\* the list ends with a single bot message after the two user messages.
C31_Witness ==
    /\ started = 2
    /\ \A r \in 1..2 :
           /\ requests[r].pc = "read"
           /\ displayedBy(r) # <<>>
    /\ ~requests[2].alone
    /\ Len(messages) = 3
    /\ messages[3].role = "bot"

\* C32: the waiting indicator is up whenever a request is still in flight;
\* the completion of one of two overlapping requests does not take it down.
C32_WaitingWhileAnyInFlight ==
    (\E r \in RequestIds : InFlight(r)) => isWaitingForBotResponse

\* C33: while a stream has carried only text data lines, the bot message is
\* the concatenation of what each complete line carries after 'data:' and the
\* one space that follows it, white space included.
C33_TextCarriedVerbatim ==
    \A r \in RequestIds :
        (/\ requests[r].pc = "read"
         /\ dataLines(requests[r].received) # <<>>
         /\ \A i \in 1..Len(dataLines(requests[r].received)) :
                /\ ~includes(dataLines(requests[r].received)[i], "{")
                /\ ~includes(dataLines(requests[r].received)[i], "}"))
        => /\ messages[Len(messages)].role = "bot"
           /\ messages[Len(messages)].content =
                  concat([i \in 1..Len(dataLines(requests[r].received)) |->
                             slice(dataLines(requests[r].received)[i],
                                   IF startsWith(dataLines(requests[r].received)[i],
                                                 DataPrefix \o <<" ">>)
                                   THEN 6 ELSE 5)])

\* C34: the spacing repair is idempotent: applied to the text it put on
\* display for a parsed envelope, it returns that text unchanged.
C34_RepairIsIdempotent ==
    \A r \in RequestIds :
        \A i \in 1..Len(requests[r].handled) :
            (/\ closedDisplayResponse(r, i).type = "string"
             /\ closedDisplayResponse(r, i).str # <<>>)
            => /\ requests[r].handled[i].display
                      = <<formatDisplayResponse(closedDisplayResponse(r, i).str)>>
               /\ formatDisplayResponse(requests[r].handled[i].display[1])
                      = requests[r].handled[i].display[1]

\* C34 witness: the displayResponse 'aBaB' was repaired to 'a Ba B'.
C34_Witness ==
    \E r \in RequestIds :
        /\ Len(requests[r].handled) = 3
        /\ closedDisplayResponse(r, 3) = JString(<<"a", "B", "a", "B">>)
        /\ requests[r].handled[3].display = <<<<"a", " ", "B", "a", " ", "B">>>>

\* C35: a processUserInput call with an empty or white-space-only input adds
\* no message, leaves the waiting indicator as it is, starts no request and
\* changes nothing else.
C35_EmptyInputChangesNothing ==
    [][ignored' # ignored =>
          UNCHANGED <<messages, isWaitingForBotResponse, isWaitingForProductRecs,
                      isCollectingJson, accumulatedJsonString, useStreaming,
                      useTextToSpeech, build, started, requests, speech>>]_vars

\* C35 witness: two empty inputs were handed in, one of them while nothing
\* had been sent yet; there is no message and nothing is awaited.
C35_Witness ==
    /\ ignored = 2
    /\ started = 0
    /\ messages = <<>>
    /\ ~isWaitingForBotResponse

\* C36: the step in which the speech of a request throws (the extraction of
\* the voice summary or synthesizeSpeech) ends the request with the waiting
\* indicator down and adds no synthesizeSpeech call; it leaves the message
\* list as it is, but for the response content the non-streaming branch put
\* on display before it turned to speech.
C36_SpeechErrorAbsorbed ==
    [][\A r \in RequestIds :
          (requests'[r].speechError /\ ~requests[r].speechError)
          => /\ requests'[r].pc = "done"
             /\ ~isWaitingForBotResponse'
             /\ speech' = speech
             /\ requests[r].pc # "fetch" => messages' = messages
             /\ requests[r].pc = "fetch" =>
                    messages' = updateOrAddBotMessage(messages,
                        IF truthy(field(requests'[r].data, KeyDisplayResponse))
                        THEN field(requests'[r].data, KeyDisplayResponse).str
                        ELSE <<>>)]_vars

\* C36 witness: the stream of a request closed, its voice summary went to
\* synthesizeSpeech, the call threw, and the request is over with the waiting
\* indicator down.
C36_Witness ==
    \E r \in RequestIds :
        /\ requests[r].speechError
        /\ requests[r].useStreaming
        /\ requests[r].pc = "done"
        /\ spokenBy(r) # <<>>
        /\ ~isWaitingForBotResponse

\* C37: a getApiToken call returns a token from the cache only when the
\* entry expires later than the time the call read plus 30 seconds; the first
\* call after clearApiTokenCache goes to the token service; a failed request
\* leaves the cache as it was.
C37_CachedTokenFreshAndClearedRefetched ==
    [][/\ \A c \in (Len(tokenCalls) + 1)..Len(tokenCalls') :
              /\ tokenCalls'[c].cached =>
                     tokenCalls'[c].expiresAt > tokenCalls'[c].now + TokenBuffer
              /\ tokenCalls'[c].afterClear => tokenCalls'[c].pc = "fetch"
       /\ \A c \in 1..Len(tokenCalls) :
              (tokenCalls[c].pc = "fetch" /\ tokenCalls'[c].pc = "threw")
              => apiTokenCache' = apiTokenCache]_vars

\* C38: in the products revision, after every chunk of the stream lastDisplay
\* is the concatenation of the fragments handed to onStreamChunk so far, and
\* when the chunk's displayResponse extends lastDisplay, lastDisplay becomes
\* that displayResponse.
C38_LastDisplayIsWhatWasEmitted ==
    [][\A r \in RequestIds :
          (/\ build = "products"
           /\ requests[r].pc = "read"
           /\ requests[r].wire # <<>>
           /\ requests'[r].pc = "read"
           /\ requests'[r].wire = Tail(requests[r].wire))
          => /\ requests'[r].lastDisplay =
                    concat([i \in 1..Len(requests'[r].handled) |->
                               requests'[r].handled[i].payload])
             /\ (/\ truthy(field(Head(requests[r].wire), KeyDisplayResponse))
                 /\ startsWith(field(Head(requests[r].wire), KeyDisplayResponse).str,
                               requests[r].lastDisplay))
                => requests'[r].lastDisplay =
                       field(Head(requests[r].wire), KeyDisplayResponse).str]_vars

\* C38 witness: the snapshots 'Hi' and 'Hiyo' were received; the fragments
\* 'Hi' and 'yo' were emitted and lastDisplay is 'Hiyo'.
C38_Witness ==
    \E r \in RequestIds :
        /\ build = "products"
        /\ requests[r].pc = "read"
        /\ requests[r].wire = <<>>
        /\ payloads(r) = <<TextHi, TextYo>>
        /\ requests[r].lastDisplay = TextHi \o TextYo

====
